---- MODULE Spec2Model ----
(***************************************************************************)
(* Phonesium miner: the proof-of-work search-and-submit pipeline.          *)
(*                                                                         *)
(*   MinerCore.mine_block / mine_block_thread   (src/miner/miner_core.py)  *)
(*   ApiHandler.submit_block                    (src/miner/api_handler.py) *)
(*   PhonesiumMinerApp.start_mining             (src/app.py)               *)
(*                                                                         *)
(* The main thread runs start_mining, which calls mine_block and then      *)
(* submit_block.  mine_block runs the workers on a ThreadPoolExecutor.     *)
(* One action of a worker is one pass through a control point of           *)
(* mine_block_thread (flag check, then one hash with its locked counter    *)
(* increment); one action of the main thread is one iteration of the loop  *)
(* it is in.                                                               *)
(***************************************************************************)
EXTENDS Integers, Sequences, FiniteSets, TLC

(* ---------------- configuration (MinerConfig) and model bounds --------- *)

\* The configuration the model runs: THREADS=2, NONCE_RANGE=4,
\* HASH_BATCH_SIZE=2, RETRY_DELAY=2.
Threads == 2
NonceRange == 4
HashBatchSize == 2
RetryDelay == 2
\* time.sleep(5) after a 429
RateLimitSleep == 5
\* max_consecutive_failures
MaxConsecutiveFailures == 5

\* Bounds of the model: the jitter of a start nonce (0 .. 100000 in the
\* code), the hashes counted so far above which no further round is
\* started, the largest retry_attempts and the largest difficulty drawn.

MaxJitter == 0
MaxCarriedHashes == 0
MaxRetryAttempts == 3
MaxDifficulty == 1

Workers == 0 .. (Threads - 1)

None == [kind |-> "None"]

Min(a, b) == IF a < b THEN a ELSE b

(* ---------------- strings ---------------------------------------------- *)

UpperCase == <<"A","B","C","D","E","F","G","H","I","J","K","L","M","N","O","P","Q","R","S","T","U","V","W","X","Y","Z">>
LowerCase == <<"a","b","c","d","e","f","g","h","i","j","k","l","m","n","o","p","q","r","s","t","u","v","w","x","y","z">>

\* str.lower(), character by character.
LowerChar(c) ==
  IF \E i \in 1 .. Len(UpperCase) : UpperCase[i] = c
    THEN LowerCase[CHOOSE i \in 1 .. Len(UpperCase) : UpperCase[i] = c]
    ELSE c

\* Mutant of Lower: the text is compared as it came.
LowerIdentity(s) == s

Lower(s) == [i \in 1 .. Len(s) |-> LowerChar(s[i])]

(* ---------------- hashing ---------------------------------------------- *)

HexDigits == <<"0","1","2","3","4","5","6","7","8","9","a","b","c","d","e","f">>

\* The digest of f"{data}{nonce}": a fixed table stands for a hash
\* algorithm (one byte per message); row = block data, column = nonce.
\* DigestTable is hashlib.sha256.
DigestTable ==
  << <<  81, 153, 230, 119, 187, 102, 221, 170, 255, 136, 204,  68 >>,
     << 119, 204,  14, 153,  85,  12,   0, 187, 102, 221,  64, 170 >>,
     << 221,  10, 136, 255, 102, 170,  85, 204, 153, 119, 238, 187 >> >>

\* The block data generate_block_data can produce.
BlockData == 1 .. Len(DigestTable)

\* hashlib.sha1
Sha1Table ==
  << << 170,  51, 204,  85, 238, 119, 153, 102, 187, 221,  34, 255 >>,
     << 136,   9, 255, 102, 170,  51, 204,  11, 119, 238,  85, 153 >>,
     << 102, 187,  13, 221, 153,  68, 255, 119, 170,  34, 204, 136 >> >>

\* hashlib.md5
Md5Table ==
  << << 204,  85, 119, 238,  51, 187, 102, 255, 153,  34, 170, 221 >>,
     <<  15, 170, 102, 221, 136, 255,  85, 153,   7, 204, 119,  51 >>,
     << 187, 102, 238,   5, 119, 204, 170,  85, 255, 153,  34, 221 >> >>

\* The values HASH_ALGORITHM is given: the three names the code knows, one
\* of them in upper case as well, and a name it does not know.
Sha256 == <<"s","h","a","2","5","6">>
Sha1 == <<"s","h","a","1">>
Md5 == <<"m","d","5">>
EnvValues == { Sha256, Sha1, Md5, <<"M","D","5">>, <<"b","l","a","k","e","2","b">> }

\* The branch calculate_hash takes for os.getenv('HASH_ALGORITHM',
\* 'sha256').lower(): sha256 is also the fallback of a name it does not know.
Algorithm(v) ==
  IF Lower(v) = Sha256 THEN "sha256"
  ELSE IF Lower(v) = Sha1 THEN "sha1"
  ELSE IF Lower(v) = Md5 THEN "md5"
  ELSE "sha256"

TableOf(alg) ==
  CASE alg = "sha1" -> Sha1Table
    [] alg = "md5" -> Md5Table
    [] OTHER -> DigestTable

Digest(alg, data, nonce) == TableOf(alg)[data][(nonce % Len(TableOf(alg)[data])) + 1]

\* hexdigest(): the lowercase hexadecimal string of the digest.
HexDigest(v) == << HexDigits[(v \div 16) + 1], HexDigits[(v % 16) + 1] >>

\* '0' * difficulty
Zeros(n) == [i \in 1 .. n |-> "0"]

\* A check that looks at the characters the hash has and never at its length.
is_valid_hash_prefix_only(hash_value, d) ==
  \A k \in 1 .. d : k <= Len(hash_value) => hash_value[k] = "0"

is_valid_hash(hash_value, d) ==
  IF Len(hash_value) = 0 \/ Len(hash_value) < d
    THEN FALSE
    ELSE SubSeq(hash_value, 1, d) = Zeros(d)

(* ---------------- state ------------------------------------------------ *)

VARIABLES
  difficulty,          \* config.difficulty
  retry_attempts,      \* config.retry_attempts
  auto_difficulty,     \* config.auto_difficulty
  last_hash_rates,     \* MinerCore.last_hash_rates
  mining,              \* PhonesiumMinerApp.mining
  mining_active,       \* MinerCore.mining_active
  shutdown_requested,  \* PhonesiumMinerApp.shutdown_requested
  core_shutdown,       \* MinerCore.shutdown_requested
  stats,               \* the shared stats dictionary
  pc,                  \* position of the main thread
  block_data,          \* block data of the round
  consecutive_failures,
  fut,                 \* state of each future of the round
  start_nonce,         \* start_nonce of each worker
  hashes_computed,     \* hashes_computed of each worker
  res,                 \* what each worker returned
  snap,                \* as_completed: futures finished at the call, not yet yielded
  acPending,           \* as_completed: futures not finished at the call, not yet yielded
  finQ,                \* as_completed: waiter.finished_futures, in completion order
  yieldSeq,            \* futures yielded by as_completed so far, in order
  ret,                 \* value mine_block is returning
  timed_out,           \* as_completed raised TimeoutError in this round
  cancelMark,          \* per worker: end of the batch it was in when the Solution was observed
  result,              \* start_mining: result of mine_block
  attempt,             \* submit_block: loop index
  trace,               \* submit_block: sleeps and requests of the call, in order
  outcome,             \* what submit_block returned
  statsAtSubmit,       \* stats when submit_block was called
  statsAtRound,        \* stats when mine_block was called
  posted,              \* solutions of the round sent to the server
  discarded,           \* Solutions of the round's workers that mine_block did not return
  cache,               \* the session cache file: what a later login reads back, or None
  running,             \* StatsMonitor.running
  lock,                \* the thread that holds stats_lock, or "free"
  step,                \* start_mining: statements done of the branch that applies the outcome
  sm,                  \* position of the thread of stats_monitor_thread
  login_attempt,       \* interactive_login: loop index
  reported,            \* the balance the server reported last, or None
  arg_hash,            \* is_valid_hash: the argument hash_value of the call
  arg_difficulty,      \* is_valid_hash: the argument difficulty of the call
  returned,            \* is_valid_hash: what the call returned, or None before it
  hash_algorithm,      \* os.environ['HASH_ALGORITHM']
  hashed,              \* per worker: the hashes it computed in the round and how it checked them
  roundConfig,         \* config.difficulty and the hash algorithm when mine_block was called
  faulted,             \* workers of the round in which an exception was raised
  wpos,                \* per worker: where it is in the body of its for loop
  block_hash,          \* per worker: block_hash, the hash it computed last
  read_total,          \* per worker: the stats['total_hashes'] it read for its += 1
  holder,              \* threading.Lock: the thread inside a with self.stats_lock block, or "free"
  at,                  \* per thread: the statement of its program it is at, 0 when it is not running
  pid_file,            \* phonesium_miner.pid: the PID written in it, Garbage, or Absent
  ipos,                \* per miner process: where it is in _acquire_single_instance_lock and after
  read_pid,            \* per miner process: pid, the number it read from the PID file
  is_locked            \* per miner process: MinerCore._is_locked

vars == << pid_file, ipos, read_pid, is_locked, holder, at, arg_hash, arg_difficulty, returned, hash_algorithm, hashed, roundConfig, faulted, wpos, block_hash, read_total, difficulty, retry_attempts, auto_difficulty, last_hash_rates, cache, running, lock, step, sm,
          login_attempt, reported, mining, mining_active, shutdown_requested,
           core_shutdown, stats, pc, block_data, consecutive_failures,
           fut, start_nonce, hashes_computed, res, snap, acPending, finQ,
           yieldSeq, ret, timed_out, cancelMark, result, attempt, trace,
           outcome, statsAtSubmit, statsAtRound, posted, discarded >>

configVars == << retry_attempts, auto_difficulty >>
tuningVars == << difficulty, last_hash_rates >>
fileVars   == << cache >>
flagVars   == << mining, mining_active, shutdown_requested, core_shutdown, running >>
sessionVars == << lock, step, sm, login_attempt, reported >>
poolVars   == << fut, start_nonce, hashes_computed, res >>
acVars     == << snap, acPending, finQ, yieldSeq >>
roundVars  == << ret, timed_out, cancelMark, statsAtRound >>
submitVars == << attempt, trace, outcome, statsAtSubmit, posted, discarded >>
callVars   == << arg_hash, arg_difficulty, returned >>
envVars    == << hash_algorithm >>
checkVars  == << hashed, roundConfig, faulted >>
lockVars   == << wpos, block_hash, read_total >>
waitVars   == << holder, at >>
pidVars    == << pid_file, ipos, read_pid, is_locked >>

\* calculate_hash reads HASH_ALGORITHM in every call.
calculate_hash(data, nonce) ==
  HexDigest(Digest(Algorithm(hash_algorithm), data, nonce))

\* pause_mining has no caller: paused keeps the value of the constructor.
paused == FALSE

\* The stats dictionary of PhonesiumMinerApp.__init__. Amounts of PHN are
\* counted in tenths; times are seconds since start_time, 0 standing for
\* None in last_block_time.
NewStats ==
  [ user_id |-> 0, total_hashes |-> 0, accepted_blocks |-> 0, rejected_blocks |-> 0,
    network_errors |-> 0, blocks_mined |-> 0, hash_rate |-> 0,
    best_hash_rate |-> 0, last_block_time |-> 0, total_earnings |-> 0,
    current_balance |-> 0, average_block_time |-> 0, power_level |-> "low",
    cpu_usage |-> 0, memory_usage |-> 0, session_uptime |-> 0 ]

\* The user id of the session (0 stands for None).
UserId == 1

\* main() with --user-id: the id is stored and nothing is asked of the server.
DirectLoginStats(s) == [s EXCEPT !.user_id = UserId]

\* HASH_ALGORITHM is not set: os.getenv gives the default.
DefaultEnv == hash_algorithm = Sha256

\* The configuration a call of mine_block starts with.
RoundConfig == [difficulty |-> difficulty, algorithm |-> Algorithm(hash_algorithm)]

\* No worker has hashed anything.
NoChecks ==
  /\ hashed = [i \in Workers |-> << >>]
  /\ roundConfig = RoundConfig
  /\ faulted = {}

\* The name stats_lock knows worker i by.
WorkerNames == << "worker-0", "worker-1", "worker-2", "worker-3" >>
WorkerName(i) == WorkerNames[i + 1]

\* The threads that use stats_lock: the main thread (which runs mine_block
\* and adjust_difficulty as well), the two monitors and the workers.
StatsLockThreads ==
  {"main", "perf_monitor", "stats_monitor"} \cup {WorkerName(i) : i \in Workers}

\* stats_lock is free and no thread runs.
NoThreads ==
  /\ holder = "free"
  /\ at = [t \in StatsLockThreads |-> 0]

\* The miner processes that share the working directory, by PID.
Procs == {1, 2}

\* The PID of a process of an earlier run that is gone.
StalePid == 3

\* No PID file; a PID file that does not hold a number.
Absent == 0
Garbage == -1

\* No miner process has reached MinerCore.__init__ yet.
NoInstance ==
  /\ pid_file = Absent
  /\ ipos = [p \in Procs |-> "init"]
  /\ read_pid = [p \in Procs |-> 0]
  /\ is_locked = [p \in Procs |-> FALSE]

\* Every worker is at the top of its loop.
WorkersIdle ==
  /\ wpos = [i \in Workers |-> "top"]
  /\ block_hash = [i \in Workers |-> << >>]
  /\ read_total = [i \in Workers |-> 0]

\* No call of is_valid_hash with arguments of the caller's choice is under way.
NoCall ==
  /\ arg_hash = << >>
  /\ arg_difficulty = 0
  /\ returned = None

\* save_session_cache: what a later login reads back from the file.
SavedCache(s) ==
  [current_balance |-> s.current_balance, total_earnings |-> s.total_earnings]

Init ==
  /\ difficulty \in 1 .. MaxDifficulty
  /\ retry_attempts \in 0 .. MaxRetryAttempts
  /\ auto_difficulty = FALSE
  /\ last_hash_rates = << >>
  /\ mining = FALSE
  /\ mining_active = FALSE
  /\ shutdown_requested = FALSE
  /\ core_shutdown = FALSE
  /\ stats = DirectLoginStats(NewStats)
  /\ cache = None
  /\ running = FALSE
  /\ lock = "free"
  /\ step = 0
  /\ sm = "idle"
  /\ login_attempt = 0
  /\ reported = None
  /\ pc = "start"
  /\ block_data = 0
  /\ consecutive_failures = 0
  /\ fut = [i \in Workers |-> "none"]
  /\ start_nonce = [i \in Workers |-> 0]
  /\ hashes_computed = [i \in Workers |-> 0]
  /\ res = [i \in Workers |-> None]
  /\ snap = {}
  /\ acPending = {}
  /\ finQ = << >>
  /\ yieldSeq = << >>
  /\ ret = None
  /\ timed_out = FALSE
  /\ cancelMark = [i \in Workers |-> 0]
  /\ result = None
  /\ attempt = 0
  /\ trace = << >>
  /\ outcome = None
  /\ statsAtSubmit = stats
  /\ statsAtRound = stats
  /\ posted = {}
  /\ discarded = {}
  /\ NoCall
  /\ DefaultEnv
  /\ NoChecks
  /\ WorkersIdle
  /\ NoThreads
  /\ NoInstance

(* ---------------- the main loop, up to the call of mine_block ---------- *)

\* start_mining, before the loop.
StartMining ==
  /\ pc = "start"
  /\ mining' = TRUE
  /\ mining_active' = TRUE
  /\ running' = TRUE
  /\ pc' = "loop"
  /\ UNCHANGED << configVars, callVars, envVars, checkVars, lockVars, waitVars, pidVars, tuningVars, fileVars, sessionVars, shutdown_requested, core_shutdown, stats,
                  block_data, consecutive_failures, poolVars, acVars, roundVars,
                  result, submitVars >>

\* _signal_handler.
SignalHandler ==
  /\ pc \notin {"start", "ended"}
  /\ ~shutdown_requested
  /\ shutdown_requested' = TRUE
  /\ mining' = FALSE
  /\ core_shutdown' = TRUE
  /\ running' = FALSE
  /\ UNCHANGED << configVars, callVars, envVars, checkVars, lockVars, waitVars, pidVars, tuningVars, fileVars, sessionVars, mining_active, stats, pc, block_data,
                  consecutive_failures, poolVars, acVars, roundVars, result,
                  submitVars >>

\* The loop test fails: the finally block of start_mining.
MainLoopExit ==
  /\ pc = "loop"
  /\ ~(mining /\ ~shutdown_requested)
  /\ mining' = FALSE
  /\ mining_active' = FALSE
  /\ running' = FALSE
  /\ cache' = SavedCache(stats)
  /\ pc' = "ended"
  /\ UNCHANGED << configVars, callVars, envVars, checkVars, lockVars, waitVars, pidVars, tuningVars, sessionVars, shutdown_requested, core_shutdown, stats,
                  block_data, consecutive_failures, poolVars, acVars, roundVars,
                  result, submitVars >>

\* One iteration begins: generate_block_data, then mine_block up to the
\* end of its executor.submit loop.
MainLoopRound ==
  /\ pc = "loop"
  /\ mining /\ ~shutdown_requested
  /\ ~paused
  /\ stats.total_hashes <= MaxCarriedHashes
  /\ \E d \in BlockData : block_data' = d
  /\ \E jitter \in [Workers -> 0 .. MaxJitter] :
       start_nonce' = [i \in Workers |-> i * NonceRange + jitter[i]]
  /\ fut' = [i \in Workers |-> "pending"]
  /\ hashes_computed' = [i \in Workers |-> 0]
  /\ res' = [i \in Workers |-> None]
  /\ snap' = {}
  /\ acPending' = {}
  /\ finQ' = << >>
  /\ yieldSeq' = << >>
  /\ ret' = None
  /\ timed_out' = FALSE
  /\ cancelMark' = [i \in Workers |-> 0]
  /\ result' = None
  /\ attempt' = 0
  /\ trace' = << >>
  /\ outcome' = None
  /\ statsAtSubmit' = stats
  /\ statsAtRound' = stats
  /\ posted' = {}
  /\ discarded' = {}
  /\ hashed' = [i \in Workers |-> << >>]
  /\ roundConfig' = RoundConfig
  /\ faulted' = {}
  /\ pc' = "as_completed_begin"
  /\ UNCHANGED << configVars, callVars, envVars, lockVars, waitVars, pidVars, tuningVars, fileVars, sessionVars, flagVars, stats, consecutive_failures >>

(* ---------------- mine_block_thread ------------------------------------ *)

\* A pool thread takes the work item: the future starts to run.
WorkerStart(i) ==
  /\ fut[i] = "pending"
  /\ fut' = [fut EXCEPT ![i] = "running"]
  /\ UNCHANGED << configVars, callVars, envVars, checkVars, lockVars, waitVars, pidVars, tuningVars, fileVars, sessionVars, flagVars, stats, pc, block_data,
                  consecutive_failures, start_nonce, hashes_computed, res,
                  acVars, roundVars, result, submitVars >>

\* Mutant of end_nonce: the window is one nonce longer.
end_nonce_past(i) == start_nonce[i] + NonceRange + 1

\* end_nonce = start_nonce + nonce_range
end_nonce(i) == start_nonce[i] + NonceRange

\* The nonce the worker hashes next.
batch_nonce(i) == start_nonce[i] + hashes_computed[i]

\* End of the batch that holds nonce n of worker i.
batch_end(i, n) ==
  Min(start_nonce[i] + (((n - start_nonce[i]) \div HashBatchSize) + 1) * HashBatchSize,
      end_nonce(i))

StopRequested == ~mining_active \/ core_shutdown \/ paused

\* The future completes with r; as_completed's waiter is notified.
Completes(i, r) ==
  /\ fut' = [fut EXCEPT ![i] = "finished"]
  /\ res' = [res EXCEPT ![i] = r]
  /\ finQ' = IF pc = "as_completed" /\ i \in acPending THEN Append(finQ, i) ELSE finQ

\* One hash of a worker: the nonce, the hash computed for it, and the
\* algorithm and the difficulty read for it.
Check(n, h) ==
  [ nonce |-> n, hash |-> h, algorithm |-> Algorithm(hash_algorithm),
    difficulty |-> difficulty ]

WorkerStep(i) ==
  /\ fut[i] = "running"
  /\ IF StopRequested \/ batch_nonce(i) >= end_nonce(i)
       THEN /\ Completes(i, None)
            /\ UNCHANGED << stats, hashes_computed, hashed >>
       ELSE LET n == batch_nonce(i)
                h == calculate_hash(block_data, n)
            IN  /\ hashes_computed' = [hashes_computed EXCEPT ![i] = @ + 1]
                /\ hashed' = [hashed EXCEPT ![i] = Append(@, Check(n, h))]
                /\ stats' = [stats EXCEPT !.total_hashes = @ + 1]
                /\ IF is_valid_hash(h, difficulty)
                     THEN Completes(i, [ kind |-> "Solution", hash |-> h, nonce |-> n,
                                         thread_id |-> i,
                                         hashes_computed |-> hashes_computed[i] + 1 ])
                     ELSE UNCHANGED << fut, res, finQ >>
  /\ UNCHANGED << configVars, callVars, envVars, roundConfig, faulted, lockVars, waitVars, pidVars, tuningVars, fileVars, sessionVars, flagVars, pc, block_data, consecutive_failures,
                  start_nonce, snap, acPending, yieldSeq, roundVars, result,
                  submitVars >>

(* ---------------- mine_block ------------------------------------------- *)

\* The hash rates a round can measure (result['nonce'] / mining_time): one
\* below the lower threshold, one inside the band, one above the upper.
HashRates == {50000, 500000, 2000000}

Max(a, b) == IF a > b THEN a ELSE b

RECURSIVE Sum(_)
Sum(q) == IF q = << >> THEN 0 ELSE Head(q) + Sum(Tail(q))

\* Mutant of RecordRate: the newest entry is dropped instead of the oldest.
RecordRateDropNewest(q, rate) ==
  LET a == Append(q, rate) IN IF Len(a) > 10 THEN SubSeq(a, 1, 10) ELSE a

\* last_hash_rates.append(hash_rate), then pop(0) when longer than 10.
RecordRate(q, rate) ==
  LET a == Append(q, rate) IN IF Len(a) > 10 THEN Tail(a) ELSE a

\* Mutant of adjust_difficulty: no cap at 8 and no floor at 3.
adjust_difficulty_unbounded(d, q) ==
  IF ~auto_difficulty \/ Len(q) < 5
    THEN d
    ELSE IF Sum(q) > 1000000 * Len(q) THEN d + 1
    ELSE IF Sum(q) < 100000 * Len(q) THEN d - 1
    ELSE d

\* Mutant of adjust_difficulty: four samples are enough.
adjust_difficulty_eager(d, q) ==
  IF ~auto_difficulty \/ Len(q) < 4
    THEN d
    ELSE IF Sum(q) > 1000000 * Len(q) /\ d < 8 THEN d + 1
    ELSE IF Sum(q) < 100000 * Len(q) /\ d > 3 THEN d - 1
    ELSE d

\* adjust_difficulty: the difficulty it leaves, given the window.
\* avg_rate > 1000000 is compared as sum > 1000000 * len.
adjust_difficulty(d, q) ==
  IF ~auto_difficulty \/ Len(q) < 5
    THEN d
    ELSE IF Sum(q) > 1000000 * Len(q) /\ d < 8 THEN d + 1
    ELSE IF Sum(q) < 100000 * Len(q) /\ d > 3 THEN d - 1
    ELSE d

\* Mutant of TunedDifficulty: the controller runs before the rate is recorded.
TunedBeforeRecord(d, q, rate) == adjust_difficulty(d, q)

\* The difficulty after the Solution branch of mine_block: the rate is
\* recorded, then adjust_difficulty is called, once.
TunedDifficulty(d, q, rate) == adjust_difficulty(d, RecordRate(q, rate))

\* f.cancel() for every future that is not done: only a future that has not
\* started is cancelled.
CancelAll(fs) == [i \in Workers |-> IF fs[i] = "pending" THEN "cancelled" ELSE fs[i]]

\* Mutant of FutureResult: the Solution of the lowest-numbered worker that
\* has one, whichever future was yielded.
FutureResultLowest(f) ==
  IF \E j \in Workers : res[j] # None
    THEN res[CHOOSE j \in Workers : res[j] # None /\ \A k \in Workers : res[k] # None => j <= k]
    ELSE None

\* future.result() of a yielded future.
FutureResult(f) == res[f]

\* as_completed is called: the futures already finished are yielded first.
AsCompletedBegin ==
  /\ pc = "as_completed_begin"
  /\ snap' = {i \in Workers : fut[i] = "finished"}
  /\ acPending' = {i \in Workers : fut[i] # "finished"}
  /\ finQ' = << >>
  /\ pc' = "as_completed"
  /\ UNCHANGED << configVars, callVars, envVars, checkVars, lockVars, waitVars, pidVars, tuningVars, fileVars, sessionVars, flagVars, stats, block_data,
                  consecutive_failures, poolVars, yieldSeq, roundVars, result,
                  submitVars >>

\* Where the batch of each running worker ends (for a worker that is not
\* running: the nonce it would hash next).
BatchMarks ==
  [i \in Workers |->
     IF fut[i] = "running" THEN batch_end(i, batch_nonce(i)) ELSE batch_nonce(i)]

\* The rates the rounds of a run measure: all of HashRates when the
\* controller reads them, the one inside the band when it is off and the
\* rate goes to the stats only.
MeasuredRates == IF auto_difficulty THEN HashRates ELSE {500000}

\* The body of the for loop of mine_block for the yielded future f.
LoopBody(f) ==
  /\ yieldSeq' = Append(yieldSeq, f)
  /\ IF ~mining_active \/ core_shutdown
       THEN \* break, then the finally block, then return None
            /\ fut' = CancelAll(fut)
            /\ ret' = None
            /\ pc' = "executor_exit"
            /\ UNCHANGED << snap, acPending, finQ, cancelMark, stats, tuningVars >>
       ELSE IF FutureResult(f) # None
         THEN \* the first Solution: cancel, record the rate, adjust, return result
              /\ lock = "free"
              /\ fut' = CancelAll(fut)
              /\ \E hash_rate \in MeasuredRates :
                   /\ stats' = [stats EXCEPT !.hash_rate = hash_rate,
                                             !.best_hash_rate = Max(@, hash_rate)]
                   /\ last_hash_rates' = RecordRate(last_hash_rates, hash_rate)
                   /\ difficulty' = TunedDifficulty(difficulty, last_hash_rates, hash_rate)
              /\ ret' = FutureResult(f)
              /\ cancelMark' = BatchMarks
              /\ pc' = "executor_exit"
              /\ UNCHANGED << snap, acPending, finQ >>
         ELSE /\ snap' = snap \ {f}
              /\ acPending' = acPending \ {f}
              /\ finQ' = IF f \in snap THEN finQ ELSE Tail(finQ)
              /\ UNCHANGED << fut, ret, cancelMark, pc, stats, tuningVars >>
  /\ UNCHANGED << configVars, callVars, envVars, checkVars, lockVars, waitVars, pidVars, fileVars, sessionVars, flagVars, block_data,
                  consecutive_failures, start_nonce, hashes_computed, res,
                  timed_out, statsAtRound, result, submitVars >>

AsCompletedNext ==
  /\ pc = "as_completed"
  /\ IF snap # {}
       THEN \E f \in snap : LoopBody(f)
       ELSE finQ # << >> /\ LoopBody(Head(finQ))

\* Every future has been yielded and none held a Solution.
AsCompletedExhausted ==
  /\ pc = "as_completed"
  /\ snap = {} /\ acPending = {}
  /\ fut' = CancelAll(fut)
  /\ ret' = None
  /\ pc' = "executor_exit"
  /\ UNCHANGED << configVars, callVars, envVars, checkVars, lockVars, waitVars, pidVars, tuningVars, fileVars, sessionVars, flagVars, stats, block_data,
                  consecutive_failures, start_nonce, hashes_computed, res,
                  acVars, timed_out, cancelMark, statsAtRound, result, submitVars >>

\* mining_timeout elapses while futures are outstanding: TimeoutError,
\* caught by "except Exception", then the finally block and return None.
AsCompletedTimeout ==
  /\ pc = "as_completed"
  /\ snap = {} /\ acPending # {}
  /\ timed_out' = TRUE
  /\ fut' = CancelAll(fut)
  /\ ret' = None
  /\ pc' = "executor_exit"
  /\ UNCHANGED << configVars, callVars, envVars, checkVars, lockVars, waitVars, pidVars, tuningVars, fileVars, sessionVars, flagVars, stats, block_data,
                  consecutive_failures, start_nonce, hashes_computed, res,
                  acVars, cancelMark, statsAtRound, result, submitVars >>

\* The Solutions of the round's workers other than the one returned.
Discarded(r) ==
  { res[i] : i \in {j \in Workers : res[j] # None /\ res[j] # r} }

\* The with block ends: ThreadPoolExecutor.__exit__ is shutdown(wait=True),
\* which joins the pool threads; then mine_block returns to start_mining
\* and its executor and futures are gone.
\* The future of worker i is done: it has finished or was cancelled before
\* it ran.
Joined(i) == fut[i] \in {"finished", "cancelled"}

\* An exit of the with block that waits for nothing.
AllJoinedAlways == TRUE

\* An exit of the with block that waits for the first worker only.
FirstJoined == fut[0] \in {"finished", "cancelled"}

\* ThreadPoolExecutor.__exit__ is shutdown(wait=True): it returns when every
\* future of the round is done.
AllJoined == \A i \in Workers : Joined(i)

ExecutorExit ==
  /\ pc = "executor_exit"
  /\ AllJoined
  /\ result' = ret
  /\ discarded' = Discarded(ret)
  /\ fut' = [i \in Workers |-> IF Joined(i) THEN "none" ELSE fut[i]]
  /\ start_nonce' = [i \in Workers |-> IF Joined(i) THEN 0 ELSE start_nonce[i]]
  /\ hashes_computed' = [i \in Workers |-> IF Joined(i) THEN 0 ELSE hashes_computed[i]]
  /\ res' = [i \in Workers |-> None]
  /\ snap' = {}
  /\ acPending' = {}
  /\ finQ' = << >>
  /\ yieldSeq' = << >>
  /\ ret' = None
  /\ timed_out' = FALSE
  /\ cancelMark' = [i \in Workers |-> 0]
  /\ hashed' = [i \in Workers |-> << >>]
  /\ pc' = "mined"
  /\ UNCHANGED << configVars, callVars, envVars, roundConfig, faulted, lockVars, waitVars, pidVars, tuningVars, fileVars, sessionVars, flagVars, stats, block_data, consecutive_failures,
                  attempt, trace, outcome, statsAtSubmit, statsAtRound, posted >>

(* ---------------- submit_block: replies and their classification ------- *)

\* keyword in text
Contains(text, keyword) ==
  \E i \in 1 .. (Len(text) - Len(keyword) + 1) :
     SubSeq(text, i, i + Len(keyword) - 1) = keyword

non_retryable_errors ==
  { <<"d","u","p","l","i","c","a","t","e">>,
    <<"a","l","r","e","a","d","y"," ","s","u","b","m","i","t","t","e","d">>,
    <<"e","x","i","s","t","s">>,
    <<"i","n","v","a","l","i","d"," ","h","a","s","h">>,
    <<"e","x","p","i","r","e","d">> }

\* any(keyword in error_msg.lower() for keyword in non_retryable_errors)
IsNonRetryableText(error_msg) ==
  \E keyword \in non_retryable_errors : Contains(Lower(error_msg), keyword)

\* Error texts a server may send with success=false.
TextDuplicateBlock   == <<"D","u","p","l","i","c","a","t","e"," ","b","l","o","c","k">>
TextAlreadySubmitted == <<"A","L","R","E","A","D","Y"," ","S","U","B","M","I","T","T","E","D">>
TextBlockExists      == <<"B","l","o","c","k"," ","e","x","i","s","t","s">>
TextInvalidHash      == <<"I","n","v","a","l","i","d"," ","H","a","s","h">>
TextJobExpired       == <<"J","o","b"," ","e","x","p","i","r","e","d">>
TextServerBusy       == <<"S","e","r","v","e","r"," ","b","u","s","y">>
TextInvalidDashHash  == <<"i","n","v","a","l","i","d","-","h","a","s","h">>
\* result.get('error', 'Unknown error') when the reply has no error text
TextUnknownError     == <<"U","n","k","n","o","w","n"," ","e","r","r","o","r">>

ErrorTexts ==
  { TextDuplicateBlock, TextAlreadySubmitted, TextBlockExists, TextInvalidHash,
    TextJobExpired, TextServerBusy, TextInvalidDashHash, TextUnknownError }

\* The JSON object of an accepting reply: with the reward, the new balance
\* and the tier, or without these keys.
AcceptedData ==
  { [final_reward |-> 15, new_balance |-> 105, power_level |-> "high", block_number |-> 7],
    [block_number |-> 7] }

\* What one session.post can produce: a response (status, body) or an
\* exception of the transport (status 0).
Replies ==
  { [status |-> 200, body |-> "success", error |-> << >>, data |-> d] : d \in AcceptedData }
  \cup { [status |-> 200, body |-> "rejected", error |-> t] : t \in ErrorTexts }
  \cup { [status |-> 200, body |-> "malformed", error |-> << >>],
         [status |-> 409, body |-> "", error |-> << >>],
         [status |-> 429, body |-> "", error |-> << >>],
         [status |-> 500, body |-> "", error |-> << >>],
         [status |-> 0, body |-> "Timeout", error |-> << >>],
         [status |-> 0, body |-> "ConnectionError", error |-> << >>] }

MaxRetriesExceeded ==
  [success |-> FALSE, retryable |-> FALSE, error |-> "Max retries exceeded"]

\* The value submit_block returns for a reply other than 429.
Classify(reply) ==
  IF reply.status = 0
    THEN [success |-> FALSE, retryable |-> TRUE,
          error |-> IF reply.body = "Timeout" THEN "Request timeout" ELSE "Connection error"]
  ELSE IF reply.status = 200
    THEN IF reply.body = "malformed"
           THEN [success |-> FALSE, retryable |-> TRUE, error |-> "Invalid JSON"]
         ELSE IF reply.body = "success"
           THEN [success |-> TRUE, data |-> reply.data]
         ELSE IF IsNonRetryableText(reply.error)
           THEN [success |-> FALSE, retryable |-> FALSE, error |-> "error_msg"]
           ELSE [success |-> FALSE, retryable |-> TRUE, error |-> "error_msg"]
  ELSE IF reply.status = 409
    THEN [success |-> FALSE, retryable |-> FALSE, error |-> "Duplicate block"]
    ELSE [success |-> FALSE, retryable |-> TRUE, error |-> "Server error"]

\* Mutant of Backoff: exponential growth.
BackoffExponential(k) == RetryDelay * (2 ^ k)

\* time.sleep(self.config.retry_delay * attempt)
Backoff(k) == RetryDelay * k

\* Mutant of NextAttempt: a 429 retries at the same index.
NextAttemptSame(k) == k

\* The loop index after "continue".
NextAttempt(k) == k + 1

Sleep(secs) == [ev |-> "sleep", secs |-> secs, attempt |-> -1, reply |-> None]
Post(k, reply) == [ev |-> "post", secs |-> 0, attempt |-> k, reply |-> reply]

(* ---------------- the main loop, after mine_block ---------------------- *)

\* A balance reported by the server.
Reported(b) == [kind |-> "Balance", balance |-> b]

\* Mutant of AfterFailureCheck: the pause comes one failure later.
AfterFailureCheckLate(n) == IF n > MaxConsecutiveFailures THEN 0 ELSE n

\* consecutive_failures after the test at the end of the iteration.
AfterFailureCheck(n) == IF n >= MaxConsecutiveFailures THEN 0 ELSE n

\* Mutant of ShouldSubmit: every Solution is submitted.
ShouldSubmitAnyResult == result # None

\* if result and self.mining and not self.shutdown_requested
ShouldSubmit == result # None /\ mining /\ ~shutdown_requested

\* mine_block has returned: submit the Solution, or go to the next round.
MainAfterMine ==
  /\ pc = "mined"
  /\ IF ShouldSubmit
       THEN /\ pc' = "submit"
            /\ attempt' = 0
            /\ trace' = << >>
            /\ outcome' = None
            /\ statsAtSubmit' = stats
            /\ UNCHANGED << consecutive_failures, posted, discarded >>
       ELSE /\ pc' = "loop"
            /\ consecutive_failures' = AfterFailureCheck(consecutive_failures)
            /\ UNCHANGED submitVars
  /\ UNCHANGED << configVars, callVars, envVars, checkVars, lockVars, waitVars, pidVars, tuningVars, fileVars, sessionVars, flagVars, stats, block_data, poolVars,
                  acVars, roundVars, result >>

\* One iteration of the for loop of submit_block.
SubmitAttempt ==
  /\ pc = "submit"
  /\ attempt < retry_attempts
  /\ \E reply \in Replies :
       LET before == IF attempt > 0 THEN << Sleep(Backoff(attempt)) >> ELSE << >>
       IN  /\ posted' = posted \cup {result}
           /\ IF reply.status = 429
                THEN /\ trace' = trace \o before \o << Post(attempt, reply), Sleep(RateLimitSleep) >>
                     /\ attempt' = NextAttempt(attempt)
                     /\ UNCHANGED << outcome, pc >>
                ELSE /\ trace' = trace \o before \o << Post(attempt, reply) >>
                     /\ outcome' = Classify(reply)
                     /\ pc' = "submitted"
                     /\ UNCHANGED attempt
  /\ UNCHANGED << configVars, callVars, envVars, checkVars, lockVars, waitVars, pidVars, tuningVars, fileVars, sessionVars, flagVars, stats, block_data,
                  consecutive_failures, poolVars, acVars, roundVars, result,
                  statsAtSubmit, discarded >>

\* The for loop of submit_block is over.
SubmitExhausted ==
  /\ pc = "submit"
  /\ attempt >= retry_attempts
  /\ outcome' = MaxRetriesExceeded
  /\ pc' = "submitted"
  /\ UNCHANGED << configVars, callVars, envVars, checkVars, lockVars, waitVars, pidVars, tuningVars, fileVars, sessionVars, flagVars, stats, block_data,
                  consecutive_failures, poolVars, acVars, roundVars, result,
                  attempt, trace, statsAtSubmit, posted, discarded >>

\* submit_result.get('retryable', True)
GetRetryable(o) == IF "retryable" \in DOMAIN o THEN o.retryable ELSE TRUE

\* dict.get(key, default)
Get(d, key, default) == IF key \in DOMAIN d THEN d[key] ELSE default

\* time.time() - start_time, as the clock may read it at a point where the
\* last block was stamped at time t.
ClockReadings(t) == {now \in {120, 360} : now >= t}

\* The statements of the accepted branch, lines 212 to 220, in order.
LastAcceptStmt == 7

\* Mutant of RecomputesAverage: the first acceptance recomputes too.
RecomputesAverageAlways(accepted) == accepted > 0

\* average_block_time is recomputed when accepted_blocks > 1.
RecomputesAverage(accepted) == accepted > 1

\* Stats after statement k of the accepted branch.
AcceptStmt(k, s, data, now) ==
  CASE k = 1 -> [s EXCEPT !.accepted_blocks = @ + 1]
    [] k = 2 -> [s EXCEPT !.blocks_mined = @ + 1]
    [] k = 3 -> [s EXCEPT !.last_block_time = now]
    [] k = 4 -> [s EXCEPT !.total_earnings = @ + Get(data, "final_reward", 0)]
    [] k = 5 -> [s EXCEPT !.current_balance = Get(data, "new_balance", 0)]
    [] k = 6 -> [s EXCEPT !.power_level = Get(data, "power_level", "low")]
    [] k = 7 -> IF RecomputesAverage(s.accepted_blocks)
                  THEN [s EXCEPT !.average_block_time = now \div s.accepted_blocks]
                  ELSE s

RECURSIVE AcceptThrough(_, _, _, _)
AcceptThrough(k, s, data, now) ==
  IF k = 0 THEN s ELSE AcceptStmt(k, AcceptThrough(k - 1, s, data, now), data, now)

\* Stats after the whole "with self.stats_lock" block of the accepted branch.
AcceptedStats(s, data, now) == AcceptThrough(LastAcceptStmt, s, data, now)

\* The statements of the failure branch, lines 240 to 242.
LastRejectStmt == 2

\* Mutant of RejectStmt: the rejection counter wraps around.
RejectStmtWrapping(k, s, o) ==
  CASE k = 1 -> [s EXCEPT !.rejected_blocks = (@ + 1) % 2]
    [] k = 2 -> IF GetRetryable(o) THEN [s EXCEPT !.network_errors = @ + 1] ELSE s

RejectStmt(k, s, o) ==
  CASE k = 1 -> [s EXCEPT !.rejected_blocks = @ + 1]
    [] k = 2 -> IF GetRetryable(o) THEN [s EXCEPT !.network_errors = @ + 1] ELSE s

RECURSIVE RejectThrough(_, _, _)
RejectThrough(k, s, o) ==
  IF k = 0 THEN s ELSE RejectStmt(k, RejectThrough(k - 1, s, o), o)

\* Stats after the "with self.stats_lock" block of the failure branch.
RejectedStats(s, o) == RejectThrough(LastRejectStmt, s, o)

\* The balance the server reported last, after a reply accepting a block.
ReportedAfter(r, data) ==
  IF "new_balance" \in DOMAIN data THEN Reported(data.new_balance) ELSE r

\* start_mining applies what submit_block returned.
MainApplyOutcome ==
  /\ pc = "submitted"
  /\ IF outcome.success
       THEN /\ \E now \in ClockReadings(stats.last_block_time) :
                 stats' = AcceptedStats(stats, outcome.data, now)
            /\ reported' = ReportedAfter(reported, outcome.data)
            /\ cache' = SavedCache(stats')
            /\ consecutive_failures' = AfterFailureCheck(0)
       ELSE /\ stats' = RejectedStats(stats, outcome)
            /\ consecutive_failures' = AfterFailureCheck(consecutive_failures + 1)
            /\ UNCHANGED << cache, reported >>
  /\ pc' = "loop"
  /\ UNCHANGED << configVars, callVars, envVars, checkVars, lockVars, waitVars, pidVars, tuningVars, lock, step, sm, login_attempt, flagVars,
                  block_data, poolVars, acVars, roundVars, result, submitVars >>

(* ---------------- login ------------------------------------------------ *)

\* max_attempts of interactive_login
MaxLoginAttempts == 3

\* Balances the server may report (tenths of PHN).
ServerBalances == {200}

\* What test_user_exists returns.
UserChecks ==
  { [success |-> FALSE] } \cup { [success |-> TRUE, balance |-> b] : b \in ServerBalances }

\* What api_login returns.
LoginResults ==
  { [success |-> FALSE] }
  \cup { [success |-> TRUE, balance |-> b, total_mined |-> 30] : b \in ServerBalances }

\* Stats after the cached branch of interactive_login: the cached values,
\* the balance of the identity check only when the cache holds none.
CachedLoginStats(s, c, check) ==
  [s EXCEPT !.user_id = UserId,
            !.current_balance = Get(c, "current_balance", check.balance),
            !.total_earnings = Get(c, "total_earnings", 0)]

\* Stats after a successful api_login.
FreshLoginStats(s, login) ==
  [s EXCEPT !.user_id = UserId,
            !.current_balance = login.balance,
            !.total_earnings = login.total_mined]

\* main() with --user-id.
LoginDirect ==
  /\ pc = "login"
  /\ lock = "free"
  /\ stats' = DirectLoginStats(stats)
  /\ pc' = "start"
  /\ UNCHANGED << configVars, callVars, envVars, checkVars, lockVars, waitVars, pidVars, tuningVars, fileVars, sessionVars, flagVars, block_data,
                  consecutive_failures, poolVars, acVars, roundVars, result,
                  submitVars >>

\* interactive_login up to its prompt loop: test_connection, then the
\* cached session and its identity check.
InteractiveLogin ==
  /\ pc = "login"
  /\ lock = "free"
  /\ \E online \in BOOLEAN :
       IF ~online
         THEN /\ pc' = "ended"
              /\ UNCHANGED << stats, cache, reported >>
         ELSE IF cache = None
           THEN /\ pc' = "prompt"
                /\ UNCHANGED << stats, cache, reported >>
           ELSE \E check \in UserChecks :
                  IF check.success
                    THEN /\ stats' = CachedLoginStats(stats, cache, check)
                         /\ reported' = Reported(check.balance)
                         /\ pc' = "start"
                         /\ UNCHANGED cache
                    ELSE /\ cache' = None
                         /\ pc' = "prompt"
                         /\ UNCHANGED << stats, reported >>
  /\ login_attempt' = 0
  /\ UNCHANGED << configVars, callVars, envVars, checkVars, lockVars, waitVars, pidVars, tuningVars, lock, step, sm, flagVars, block_data,
                  consecutive_failures, poolVars, acVars, roundVars, result,
                  submitVars >>

\* One iteration of the prompt loop of interactive_login.
LoginAttempt ==
  /\ pc = "prompt"
  /\ lock = "free"
  /\ login_attempt < MaxLoginAttempts
  /\ \E login \in LoginResults :
       IF login.success
         THEN /\ stats' = FreshLoginStats(stats, login)
              /\ cache' = SavedCache(stats')
              /\ reported' = Reported(login.balance)
              /\ pc' = "start"
              /\ login_attempt' = 0
         ELSE /\ login_attempt' = login_attempt + 1
              /\ UNCHANGED << stats, cache, reported, pc >>
  /\ UNCHANGED << configVars, callVars, envVars, checkVars, lockVars, waitVars, pidVars, tuningVars, lock, step, sm, flagVars, block_data,
                  consecutive_failures, poolVars, acVars, roundVars, result,
                  submitVars >>

\* The prompt loop is over: authentication failed, main() exits.
LoginGiveUp ==
  /\ pc = "prompt"
  /\ login_attempt >= MaxLoginAttempts
  /\ pc' = "ended"
  /\ UNCHANGED << configVars, callVars, envVars, checkVars, lockVars, waitVars, pidVars, tuningVars, fileVars, sessionVars, flagVars, stats,
                  block_data, consecutive_failures, poolVars, acVars, roundVars,
                  result, submitVars >>

(* ---------------- start_mining applies the outcome, under stats_lock --- *)

\* Mutant of ReleasesAfter: the lock is taken for each statement alone.
ReleasesAfterEach(k, last) == TRUE

\* The with block ends after its last statement.
ReleasesAfter(k, last) == k = last

\* The statements of the branch start_mining takes for outcome o.
LastStmt(o) == IF o.success THEN LastAcceptStmt ELSE LastRejectStmt

\* "with self.stats_lock": the main thread takes the lock.
ApplyAcquire ==
  /\ pc = "submitted"
  /\ step < LastStmt(outcome)
  /\ lock = "free"
  /\ lock' = "main"
  /\ UNCHANGED << configVars, callVars, envVars, checkVars, lockVars, waitVars, pidVars, tuningVars, fileVars, step, sm, login_attempt,
                  reported, flagVars, stats, pc, block_data, consecutive_failures,
                  poolVars, acVars, roundVars, result, submitVars >>

\* The next statement of the branch, the lock being held.
ApplyStmt ==
  /\ pc = "submitted"
  /\ step < LastStmt(outcome)
  /\ lock = "main"
  /\ step' = step + 1
  /\ IF outcome.success
       THEN /\ \E now \in ClockReadings(stats.last_block_time) :
                 stats' = AcceptStmt(step + 1, stats, outcome.data, now)
            /\ reported' = IF step + 1 = 5
                             THEN ReportedAfter(reported, outcome.data)
                             ELSE reported
       ELSE /\ stats' = RejectStmt(step + 1, stats, outcome)
            /\ UNCHANGED reported
  /\ lock' = IF ReleasesAfter(step + 1, LastStmt(outcome)) THEN "free" ELSE "main"
  /\ UNCHANGED << configVars, callVars, envVars, checkVars, lockVars, waitVars, pidVars, tuningVars, fileVars, sm, login_attempt, flagVars,
                  pc, block_data, consecutive_failures, poolVars, acVars, roundVars,
                  result, submitVars >>

\* After the with block: on acceptance the success rate of the log line is
\* computed from the stats and the cache is saved; the failure counter is
\* updated and tested, and the iteration ends.
ApplyDone ==
  /\ pc = "submitted"
  /\ step = LastStmt(outcome)
  /\ lock # "main"
  /\ IF outcome.success
       THEN /\ cache' = SavedCache(stats)
            /\ consecutive_failures' = AfterFailureCheck(0)
       ELSE /\ consecutive_failures' = AfterFailureCheck(consecutive_failures + 1)
            /\ UNCHANGED cache
  /\ step' = 0
  /\ pc' = "loop"
  /\ UNCHANGED << configVars, callVars, envVars, checkVars, lockVars, waitVars, pidVars, tuningVars, lock, sm, login_attempt, reported,
                  flagVars, stats, block_data, poolVars, acVars, roundVars, result,
                  submitVars >>

(* ---------------- the monitor threads ---------------------------------- *)

\* psutil.cpu_percent, psutil.virtual_memory().percent and the uptime the
\* performance monitor measures.
CpuReadings == {20}
MemoryReadings == {40}
UptimeReadings == {60}

\* A monitor that writes without the lock.
MonitorAcquiresAlways == TRUE

\* with self.stats_lock of monitor_system_performance: the thread goes on
\* when the lock is free.
MonitorAcquires == lock = "free"

\* One iteration of monitor_system_performance: its with block takes the
\* lock, writes the three readings and releases the lock.
PerfMonitor ==
  /\ running
  /\ MonitorAcquires
  /\ \E cpu \in CpuReadings, mem \in MemoryReadings, up \in UptimeReadings :
       stats' = [stats EXCEPT !.cpu_usage = cpu, !.memory_usage = mem,
                              !.session_uptime = up]
  /\ UNCHANGED << configVars, callVars, envVars, checkVars, lockVars, waitVars, pidVars, tuningVars, fileVars, sessionVars, flagVars, pc,
                  block_data, consecutive_failures, poolVars, acVars, roundVars,
                  result, submitVars >>

\* save_session_cache every tenth accepted block
AutosaveEvery == 10

\* stats_monitor_thread: print_stats takes the lock, reads the stats and
\* releases the lock.
StatsMonitorPrint ==
  /\ running
  /\ sm = "idle"
  /\ lock = "free"
  /\ sm' = "printed"
  /\ UNCHANGED << configVars, callVars, envVars, checkVars, lockVars, waitVars, pidVars, tuningVars, fileVars, lock, step, login_attempt,
                  reported, flagVars, stats, pc, block_data, consecutive_failures,
                  poolVars, acVars, roundVars, result, submitVars >>

\* stats_monitor_thread takes the lock again for the periodic save.
StatsMonitorSave ==
  /\ sm = "printed"
  /\ lock = "free"
  /\ cache' = IF stats.accepted_blocks % AutosaveEvery = 0 /\ stats.accepted_blocks > 0
                THEN SavedCache(stats)
                ELSE cache
  /\ sm' = "idle"
  /\ UNCHANGED << configVars, callVars, envVars, checkVars, lockVars, waitVars, pidVars, tuningVars, lock, step, login_attempt, reported,
                  flagVars, stats, pc, block_data, consecutive_failures, poolVars,
                  acVars, roundVars, result, submitVars >>

(* ---------------- specification ---------------------------------------- *)

Next ==
  \/ StartMining
  \/ SignalHandler
  \/ MainLoopExit
  \/ MainLoopRound
  \/ \E i \in Workers : WorkerStart(i)
  \/ \E i \in Workers : WorkerStep(i)
  \/ AsCompletedBegin
  \/ AsCompletedNext
  \/ AsCompletedExhausted
  \/ AsCompletedTimeout
  \/ ExecutorExit
  \/ MainAfterMine
  \/ SubmitAttempt
  \/ SubmitExhausted
  \/ MainApplyOutcome

Spec == Init /\ [][Next]_vars

(* ---------------- a session: login, rounds, outcomes, monitors --------- *)

\* Submissions of a session the model follows.
MaxSubmissions == 2

\* Session caches a previous run may have left (load_session_cache).
SessionCaches == { None, [current_balance |-> 105, total_earnings |-> 15] }

\* The hash rate the rounds of the session measure.
SessionRates == {500000}

\* The block data of the session's rounds.
SessionBlockData == {3}

\* The Solutions a round on block data data can return at difficulty d: a
\* valid hash found by worker i in its nonce window.
Solutions(data, d) ==
  UNION { { [ kind |-> "Solution", hash |-> calculate_hash(data, n), nonce |-> n,
              thread_id |-> i, hashes_computed |-> n - i * NonceRange + 1 ] :
              n \in { m \in (i * NonceRange) .. (i * NonceRange + NonceRange - 1) :
                        is_valid_hash(calculate_hash(data, m), d) } } :
          i \in Workers }

\* One call of mine_block, from the loop test to its return, as the session
\* sees it: it returns None, or the Solution of one worker after that
\* worker's hashes, with the rate recorded and the difficulty adjusted.
MineBlockUpTo(submissions) ==
  /\ pc = "loop"
  /\ mining /\ ~shutdown_requested
  /\ ~paused
  /\ lock = "free"
  /\ stats.accepted_blocks + stats.rejected_blocks < submissions
  /\ \E data \in SessionBlockData :
       /\ block_data' = data
       /\ \E r \in {None} \cup Solutions(data, difficulty) :
            /\ result' = r
            /\ IF r = None
                 THEN UNCHANGED << stats, tuningVars >>
                 ELSE \E hash_rate \in SessionRates :
                        /\ stats' = [stats EXCEPT !.total_hashes = @ + r.hashes_computed,
                                                  !.hash_rate = hash_rate,
                                                  !.best_hash_rate = Max(@, hash_rate)]
                        /\ last_hash_rates' = RecordRate(last_hash_rates, hash_rate)
                        /\ difficulty' =
                             TunedDifficulty(difficulty, last_hash_rates, hash_rate)
  /\ attempt' = 0
  /\ trace' = << >>
  /\ outcome' = None
  /\ statsAtSubmit' = stats'
  /\ statsAtRound' = stats
  /\ posted' = {}
  /\ discarded' = {}
  /\ pc' = "mined"
  /\ UNCHANGED << configVars, callVars, envVars, checkVars, lockVars, waitVars, pidVars, fileVars, sessionVars, flagVars, consecutive_failures,
                  poolVars, acVars, ret, timed_out, cancelMark >>

MineBlock == MineBlockUpTo(MaxSubmissions)

SessionInit ==
  /\ difficulty \in 1 .. MaxDifficulty
  /\ retry_attempts = Min(2, MaxRetryAttempts)
  /\ auto_difficulty = FALSE
  /\ last_hash_rates = << >>
  /\ mining = FALSE
  /\ mining_active = FALSE
  /\ shutdown_requested = FALSE
  /\ core_shutdown = FALSE
  /\ stats = NewStats
  /\ cache \in SessionCaches
  /\ running = FALSE
  /\ lock = "free"
  /\ step = 0
  /\ sm = "idle"
  /\ login_attempt = 0
  /\ reported = None
  /\ pc = "login"
  /\ block_data = 0
  /\ consecutive_failures = 0
  /\ fut = [i \in Workers |-> "none"]
  /\ start_nonce = [i \in Workers |-> 0]
  /\ hashes_computed = [i \in Workers |-> 0]
  /\ res = [i \in Workers |-> None]
  /\ snap = {}
  /\ acPending = {}
  /\ finQ = << >>
  /\ yieldSeq = << >>
  /\ ret = None
  /\ timed_out = FALSE
  /\ cancelMark = [i \in Workers |-> 0]
  /\ result = None
  /\ attempt = 0
  /\ trace = << >>
  /\ outcome = None
  /\ statsAtSubmit = stats
  /\ statsAtRound = stats
  /\ posted = {}
  /\ discarded = {}
  /\ NoCall
  /\ DefaultEnv
  /\ NoChecks
  /\ WorkersIdle
  /\ NoThreads
  /\ NoInstance

SessionNext ==
  \/ LoginDirect
  \/ InteractiveLogin
  \/ LoginAttempt
  \/ LoginGiveUp
  \/ StartMining
  \/ SignalHandler
  \/ MainLoopExit
  \/ MineBlock
  \/ MainAfterMine
  \/ SubmitAttempt
  \/ SubmitExhausted
  \/ ApplyAcquire
  \/ ApplyStmt
  \/ ApplyDone
  \/ PerfMonitor
  \/ StatsMonitorPrint
  \/ StatsMonitorSave

SessionSpec == SessionInit /\ [][SessionNext]_vars

(* ---------------- the difficulty controller over many rounds ----------- *)

\* Rounds with a Solution the model follows from a drawn window.
MaxTunedRounds == 2

\* The difficulties the configuration accepts: --difficulty is clamped to
\* 1..10.
ConfigDifficulties == 1 .. 10

\* Hash rates of a round: below, at, between, at and above the thresholds.
TuningRates == HashRates \cup {100000, 1000000}

\* Lengths of the windows the model starts from.
WindowLengths == {0, 3, 4, 9, 10}

\* Windows left by earlier rounds: one rate repeated, or the lowest and the
\* highest rate alternating.
TuningWindows ==
  { [i \in 1 .. n |-> r] : n \in WindowLengths, r \in TuningRates }
  \cup { [i \in 1 .. n |-> IF i % 2 = 1 THEN 50000 ELSE 2000000] : n \in WindowLengths }
  \cup { [i \in 1 .. n |-> IF i % 2 = 1 THEN 2000000 ELSE 50000] : n \in WindowLengths }

\* A Solution of worker 1 at the first nonce of its window: a hash of d
\* zeros and one more digit.
FirstNonceSolution(d) ==
  [ kind |-> "Solution", hash |-> Zeros(d) \o << "a" >>, nonce |-> NonceRange,
    thread_id |-> 1, hashes_computed |-> 1 ]

\* One call of mine_block at any difficulty: it returns None, or a
\* Solution after recording the round's rate and adjusting the difficulty.
TuneRound ==
  /\ pc \in {"loop", "mined"}
  /\ mining_active /\ ~core_shutdown
  /\ stats.total_hashes < MaxTunedRounds
  /\ \E r \in {None, FirstNonceSolution(difficulty)} :
       /\ result' = r
       /\ IF r = None
            THEN UNCHANGED << stats, tuningVars >>
            ELSE \E hash_rate \in TuningRates :
                   /\ stats' = [stats EXCEPT !.total_hashes = @ + r.hashes_computed,
                                             !.hash_rate = hash_rate,
                                             !.best_hash_rate = Max(@, hash_rate)]
                   /\ last_hash_rates' = RecordRate(last_hash_rates, hash_rate)
                   /\ difficulty' = TunedDifficulty(difficulty, last_hash_rates, hash_rate)
  /\ statsAtRound' = stats
  /\ pc' = "mined"
  /\ UNCHANGED << configVars, callVars, envVars, checkVars, lockVars, waitVars, pidVars, fileVars, sessionVars, flagVars, block_data,
                  consecutive_failures, poolVars, acVars, ret, timed_out,
                  cancelMark, submitVars >>

TuningInit ==
  /\ difficulty \in ConfigDifficulties
  /\ retry_attempts = MaxRetryAttempts
  /\ auto_difficulty \in BOOLEAN
  /\ last_hash_rates \in TuningWindows
  /\ mining = TRUE
  /\ mining_active = TRUE
  /\ shutdown_requested = FALSE
  /\ core_shutdown = FALSE
  /\ stats = DirectLoginStats(NewStats)
  /\ cache = None
  /\ running = TRUE
  /\ lock = "free"
  /\ step = 0
  /\ sm = "idle"
  /\ login_attempt = 0
  /\ reported = None
  /\ pc = "loop"
  /\ block_data = 0
  /\ consecutive_failures = 0
  /\ fut = [i \in Workers |-> "none"]
  /\ start_nonce = [i \in Workers |-> 0]
  /\ hashes_computed = [i \in Workers |-> 0]
  /\ res = [i \in Workers |-> None]
  /\ snap = {}
  /\ acPending = {}
  /\ finQ = << >>
  /\ yieldSeq = << >>
  /\ ret = None
  /\ timed_out = FALSE
  /\ cancelMark = [i \in Workers |-> 0]
  /\ result = None
  /\ attempt = 0
  /\ trace = << >>
  /\ outcome = None
  /\ statsAtSubmit = stats
  /\ statsAtRound = stats
  /\ posted = {}
  /\ discarded = {}
  /\ NoCall
  /\ DefaultEnv
  /\ NoChecks
  /\ WorkersIdle
  /\ NoThreads
  /\ NoInstance

TuningNext == TuneRound

TuningSpec == TuningInit /\ [][TuningNext]_vars

(* ---------------- rounds of an auto-tuned miner ------------------------- *)

\* A miner started with --auto-difficulty whose window holds four samples
\* at the upper threshold: the next Solution gives the controller its
\* fifth sample.
RoundInit ==
  /\ difficulty \in 1 .. MaxDifficulty
  /\ retry_attempts = 1
  /\ auto_difficulty = TRUE
  /\ last_hash_rates = [i \in 1 .. 4 |-> 1000000]
  /\ mining = FALSE
  /\ mining_active = FALSE
  /\ shutdown_requested = FALSE
  /\ core_shutdown = FALSE
  /\ stats = DirectLoginStats(NewStats)
  /\ cache = None
  /\ running = FALSE
  /\ lock = "free"
  /\ step = 0
  /\ sm = "idle"
  /\ login_attempt = 0
  /\ reported = None
  /\ pc = "start"
  /\ block_data = 0
  /\ consecutive_failures = 0
  /\ fut = [i \in Workers |-> "none"]
  /\ start_nonce = [i \in Workers |-> 0]
  /\ hashes_computed = [i \in Workers |-> 0]
  /\ res = [i \in Workers |-> None]
  /\ snap = {}
  /\ acPending = {}
  /\ finQ = << >>
  /\ yieldSeq = << >>
  /\ ret = None
  /\ timed_out = FALSE
  /\ cancelMark = [i \in Workers |-> 0]
  /\ result = None
  /\ attempt = 0
  /\ trace = << >>
  /\ outcome = None
  /\ statsAtSubmit = stats
  /\ statsAtRound = stats
  /\ posted = {}
  /\ discarded = {}
  /\ NoCall
  /\ DefaultEnv
  /\ NoChecks
  /\ WorkersIdle
  /\ NoThreads
  /\ NoInstance

RoundSpec == RoundInit /\ [][Next]_vars

(* ---------------- calls of is_valid_hash -------------------------------- *)

MaxHashLen == 3

\* The characters of the hash strings of the calls: the zero and one other
\* hexadecimal digit.
HashChars == {"0", "a"}

\* Every string of at most MaxHashLen characters, the empty one included.
HashStrings == UNION { [1 .. n -> HashChars] : n \in 0 .. MaxHashLen }

\* The difficulties of the calls: DIFFICULTY is read with int() and is not
\* clamped, so zero and a negative number are among them, and one is
\* longer than every hash string.
CallDifficulties == -1 .. (MaxHashLen + 1)

Returned(b) == [kind |-> "Bool", value |-> b]

\* One call is_valid_hash(arg_hash, arg_difficulty).
CallIsValidHash ==
  /\ returned = None
  /\ returned' = Returned(is_valid_hash(arg_hash, arg_difficulty))
  /\ UNCHANGED << arg_hash, arg_difficulty, envVars, checkVars, lockVars, waitVars, pidVars, configVars, tuningVars, fileVars,
                  sessionVars, flagVars, stats, pc, block_data,
                  consecutive_failures, poolVars, acVars, roundVars, result,
                  submitVars >>

ValidInit ==
  /\ arg_hash \in HashStrings
  /\ arg_difficulty \in CallDifficulties
  /\ returned = None
  /\ difficulty = 1
  /\ DefaultEnv
  /\ NoChecks
  /\ WorkersIdle
  /\ NoThreads
  /\ NoInstance
  /\ retry_attempts = MaxRetryAttempts
  /\ auto_difficulty = FALSE
  /\ last_hash_rates = << >>
  /\ mining = FALSE
  /\ mining_active = FALSE
  /\ shutdown_requested = FALSE
  /\ core_shutdown = FALSE
  /\ stats = NewStats
  /\ cache = None
  /\ running = FALSE
  /\ lock = "free"
  /\ step = 0
  /\ sm = "idle"
  /\ login_attempt = 0
  /\ reported = None
  /\ pc = "start"
  /\ block_data = 0
  /\ consecutive_failures = 0
  /\ fut = [i \in Workers |-> "none"]
  /\ start_nonce = [i \in Workers |-> 0]
  /\ hashes_computed = [i \in Workers |-> 0]
  /\ res = [i \in Workers |-> None]
  /\ snap = {}
  /\ acPending = {}
  /\ finQ = << >>
  /\ yieldSeq = << >>
  /\ ret = None
  /\ timed_out = FALSE
  /\ cancelMark = [i \in Workers |-> 0]
  /\ result = None
  /\ attempt = 0
  /\ trace = << >>
  /\ outcome = None
  /\ statsAtSubmit = stats
  /\ statsAtRound = stats
  /\ posted = {}
  /\ discarded = {}

ValidNext == CallIsValidHash

ValidSpec == ValidInit /\ [][ValidNext]_vars

(* ---------------- a change of HASH_ALGORITHM during a round ------------- *)

\* os.environ['HASH_ALGORITHM'] is given another value while mine_block is
\* running; it is changed again only as long as calculate_hash still takes
\* the branch the round began with.
SetHashAlgorithm ==
  /\ pc \in {"as_completed_begin", "as_completed", "executor_exit"}
  /\ Algorithm(hash_algorithm) = roundConfig.algorithm
  /\ \E v \in EnvValues \ {hash_algorithm} : hash_algorithm' = v
  /\ UNCHANGED << configVars, callVars, checkVars, lockVars, waitVars, pidVars, tuningVars, fileVars,
                  sessionVars, flagVars, stats, pc, block_data,
                  consecutive_failures, poolVars, acVars, roundVars, result,
                  submitVars >>

\* A miner with one request per submission.
AlgoInit == Init /\ retry_attempts = 1

\* The steps of the main thread up to the return of mine_block, without a
\* signal.
SearchMain ==
  \/ StartMining
  \/ MainLoopRound
  \/ AsCompletedBegin
  \/ AsCompletedNext
  \/ AsCompletedExhausted
  \/ AsCompletedTimeout
  \/ ExecutorExit

AlgoNext ==
  \/ SearchMain
  \/ \E i \in Workers : WorkerStart(i)
  \/ \E i \in Workers : WorkerStep(i)
  \/ SetHashAlgorithm

AlgoSpec == AlgoInit /\ [][AlgoNext]_vars

(* ---------------- an exception inside a worker -------------------------- *)

\* Mutant of WorkerFault: the exception leaves mine_block_thread, and
\* future.result() raises it in mine_block, which gives the round up.
WorkerFaultEscalates(i) ==
  /\ fut[i] = "running"
  /\ pc = "as_completed"
  /\ Completes(i, None)
  /\ faulted' = faulted \cup {i}
  /\ ret' = None
  /\ pc' = "executor_exit"
  /\ UNCHANGED << configVars, callVars, envVars, hashed, roundConfig, lockVars, waitVars, pidVars,
                  tuningVars, fileVars, sessionVars, flagVars, stats,
                  block_data, consecutive_failures, start_nonce,
                  hashes_computed, snap, acPending, yieldSeq, timed_out,
                  cancelMark, statsAtRound, result, submitVars >>

\* An exception is raised inside the try block of mine_block_thread: the
\* handler logs it and the worker returns None.
WorkerFault(i) ==
  /\ fut[i] = "running"
  /\ Completes(i, None)
  /\ faulted' = faulted \cup {i}
  /\ UNCHANGED << configVars, callVars, envVars, hashed, roundConfig, lockVars, waitVars, pidVars,
                  tuningVars, fileVars, sessionVars, flagVars, stats, pc,
                  block_data, consecutive_failures, start_nonce,
                  hashes_computed, snap, acPending, yieldSeq, roundVars,
                  result, submitVars >>

FaultInit == Init /\ retry_attempts = 1

FaultNext ==
  \/ SearchMain
  \/ \E i \in Workers : WorkerStart(i)
  \/ \E i \in Workers : WorkerStep(i)
  \/ \E i \in Workers : WorkerFault(i)

FaultSpec == FaultInit /\ [][FaultNext]_vars

(* ---------------- the worker's counter increment, step by step --------- *)

\* A lock that lets every thread in.
CanAcquireAlways == TRUE

\* threading.Lock: acquire returns when no thread holds the lock.
CanAcquire == lock = "free"

\* The for loop of mine_block_thread up to the with block: the flag checks,
\* calculate_hash and hashes_computed += 1.
WorkerHash(i) ==
  /\ fut[i] = "running"
  /\ wpos[i] = "top"
  /\ IF StopRequested \/ batch_nonce(i) >= end_nonce(i)
       THEN /\ Completes(i, None)
            /\ UNCHANGED << hashes_computed, wpos, block_hash >>
       ELSE /\ block_hash' = [block_hash EXCEPT ![i] = calculate_hash(block_data, batch_nonce(i))]
            /\ hashes_computed' = [hashes_computed EXCEPT ![i] = @ + 1]
            /\ wpos' = [wpos EXCEPT ![i] = "lock"]
            /\ UNCHANGED << fut, res, finQ >>
  /\ UNCHANGED << configVars, callVars, envVars, waitVars, pidVars, checkVars, read_total,
                  tuningVars, fileVars, sessionVars, flagVars, stats, pc,
                  block_data, consecutive_failures, start_nonce, snap,
                  acPending, yieldSeq, roundVars, result, submitVars >>

\* with self.stats_lock, and the read of stats['total_hashes'] += 1.
WorkerLock(i) ==
  /\ fut[i] = "running"
  /\ wpos[i] = "lock"
  /\ CanAcquire
  /\ lock' = WorkerName(i)
  /\ read_total' = [read_total EXCEPT ![i] = stats.total_hashes]
  /\ wpos' = [wpos EXCEPT ![i] = "locked"]
  /\ UNCHANGED << configVars, callVars, envVars, waitVars, pidVars, checkVars, block_hash,
                  tuningVars, fileVars, step, sm, login_attempt, reported,
                  flagVars, stats, pc, block_data, consecutive_failures,
                  poolVars, acVars, roundVars, result, submitVars >>

\* The write of stats['total_hashes'] += 1, the end of the with block, and
\* the validity check of the hash.
WorkerCount(i) ==
  /\ fut[i] = "running"
  /\ wpos[i] = "locked"
  /\ stats' = [stats EXCEPT !.total_hashes = read_total[i] + 1]
  /\ lock' = "free"
  /\ wpos' = [wpos EXCEPT ![i] = "top"]
  /\ hashed' = [hashed EXCEPT ![i] = Append(@, Check(batch_nonce(i) - 1, block_hash[i]))]
  /\ IF is_valid_hash(block_hash[i], difficulty)
       THEN Completes(i, [ kind |-> "Solution", hash |-> block_hash[i],
                           nonce |-> batch_nonce(i) - 1, thread_id |-> i,
                           hashes_computed |-> hashes_computed[i] ])
       ELSE UNCHANGED << fut, res, finQ >>
  /\ UNCHANGED << configVars, callVars, envVars, waitVars, pidVars, roundConfig, faulted,
                  block_hash, read_total, tuningVars, fileVars, step, sm,
                  login_attempt, reported, flagVars, pc, block_data,
                  consecutive_failures, start_nonce, hashes_computed, snap,
                  acPending, yieldSeq, roundVars, result, submitVars >>

\* A miner started with --user-id, DIFFICULTY=1 and RETRY_ATTEMPTS=0: every
\* submission ends without a request and the main thread applies a failure.
LockInit ==
  /\ difficulty = 1
  /\ retry_attempts = 0
  /\ auto_difficulty = FALSE
  /\ last_hash_rates = << >>
  /\ mining = FALSE
  /\ mining_active = FALSE
  /\ shutdown_requested = FALSE
  /\ core_shutdown = FALSE
  /\ stats = NewStats
  /\ cache = None
  /\ running = FALSE
  /\ lock = "free"
  /\ step = 0
  /\ sm = "idle"
  /\ login_attempt = 0
  /\ reported = None
  /\ pc = "login"
  /\ block_data = 0
  /\ consecutive_failures = 0
  /\ fut = [i \in Workers |-> "none"]
  /\ start_nonce = [i \in Workers |-> 0]
  /\ hashes_computed = [i \in Workers |-> 0]
  /\ res = [i \in Workers |-> None]
  /\ snap = {}
  /\ acPending = {}
  /\ finQ = << >>
  /\ yieldSeq = << >>
  /\ ret = None
  /\ timed_out = FALSE
  /\ cancelMark = [i \in Workers |-> 0]
  /\ result = None
  /\ attempt = 0
  /\ trace = << >>
  /\ outcome = None
  /\ statsAtSubmit = stats
  /\ statsAtRound = stats
  /\ posted = {}
  /\ discarded = {}
  /\ NoCall
  /\ DefaultEnv
  /\ NoChecks
  /\ WorkersIdle
  /\ NoThreads
  /\ NoInstance

\* Every thread that writes the stats: the main thread from the login to
\* the applied outcome, the workers, and the performance monitor.
LockNext ==
  \/ LoginDirect
  \/ SearchMain
  \/ \E i \in Workers : WorkerStart(i)
  \/ \E i \in Workers : WorkerHash(i)
  \/ \E i \in Workers : WorkerLock(i)
  \/ \E i \in Workers : WorkerCount(i)
  \/ MainAfterMine
  \/ SubmitExhausted
  \/ ApplyAcquire
  \/ ApplyStmt
  \/ ApplyDone
  \/ PerfMonitor

LockSpec == LockInit /\ [][LockNext]_vars

(* ---------------- stats_lock: who requests it, who holds it ------------ *)

\* The statements of a thread that matter to stats_lock, in program order.
\* acquire and release are the entry and the exit of a with block, body is a
\* statement inside it (it may raise: the with block releases the lock and
\* control goes to the statement 'handler', 0 when nothing catches it),
\* branch goes to one of the statements 'to' (0: the thread ends).
Acquire(line) == [op |-> "acquire", line |-> line, to |-> {}, handler |-> 0]
Body(line, handler) == [op |-> "body", line |-> line, to |-> {}, handler |-> handler]
Release(line) == [op |-> "release", line |-> line, to |-> {}, handler |-> 0]
Branch(line, to) == [op |-> "branch", line |-> line, to |-> to, handler |-> 0]
StartMonitors(line) == [op |-> "start", line |-> line, to |-> {}, handler |-> 0]
SubmitWorkers(line) == [op |-> "spawn", line |-> line, to |-> {}, handler |-> 0]
JoinWorkers(line) == [op |-> "join", line |-> line, to |-> {}, handler |-> 0]

\* The main thread: display_banner, the monitors' start, the loop of
\* start_mining with mine_block and adjust_difficulty inside it, the branch
\* that applies the outcome, and print_stats in the finally clause.
MainProgram ==
  << Acquire(75), Body(76, 0), Release(89),           \* app.py: display_banner
     StartMonitors(177),                              \* app.py: the two Thread.start()
     Branch(187, {6, 25}),                            \* app.py: while self.mining and not ...
     SubmitWorkers(180),                              \* miner_core.py: executor.submit
     Branch(190, {8, 15}),                            \* miner_core.py: a Solution, or none
     Acquire(205), Body(206, 15), Release(210),       \* miner_core.py: hash_rate, best_hash_rate
     Branch(99, {12, 15}),                            \* miner_core.py: if not auto_difficulty: return
     Acquire(102), Body(103, 15), Release(111),       \* miner_core.py: adjust_difficulty
     JoinWorkers(176),                                \* miner_core.py: end of with ThreadPoolExecutor
     Branch(198, {17, 21, 5}),                        \* app.py: accepted, failed, or nothing to submit
     Acquire(211), Body(212, 5), Release(220), Branch(236, {5}),
     Acquire(239), Body(240, 5), Release(242), Branch(245, {5}),
     Acquire(47), Body(48, 0), Release(87), Branch(276, {0}) >>  \* finally: print_stats

\* mine_block_thread: the flag tests, the with block of the counter, and
\* the validity test that ends the thread or goes on with the next nonce.
WorkerProgram ==
  << Branch(129, {2, 0}), Acquire(139), Body(140, 0), Release(140), Branch(142, {1, 0}) >>

\* monitor_system_performance: its except clause sleeps and loops.
PerfMonitorProgram ==
  << Branch(21, {2, 0}), Acquire(27), Body(28, 1), Release(30), Branch(39, {1}) >>

\* Mutant of StatsMonitorProgram: print_stats is called inside the with
\* block of the periodic save.
StatsMonitorProgramNested ==
  << Branch(91, {2, 0}), Acquire(96), Acquire(47), Body(48, 0), Release(87),
     Body(98, 0), Release(101), Branch(91, {1}) >>

\* stats_monitor_thread: print_stats, then the with block of the periodic save.
StatsMonitorProgram ==
  << Branch(91, {2, 0}), Acquire(47), Body(48, 0), Release(87),
     Acquire(96), Body(98, 0), Release(101), Branch(91, {1}) >>

ProgramOf(t) ==
  IF t = "main" THEN MainProgram
  ELSE IF t = "perf_monitor" THEN PerfMonitorProgram
  ELSE IF t = "stats_monitor" THEN StatsMonitorProgram
  ELSE WorkerProgram

\* The statement thread t is at; a thread that does not run is at no statement.
Stopped == [op |-> "stopped", line |-> 0, to |-> {}, handler |-> 0]
OpAt(t) == IF at[t] = 0 THEN Stopped ELSE ProgramOf(t)[at[t]]

WorkerThreads == {WorkerName(i) : i \in Workers}

\* python app.py: the main thread starts at display_banner.
MainThreadStart ==
  /\ at["main"] = 0
  /\ \A t \in StatsLockThreads : at[t] = 0
  /\ pc = "start"
  /\ at' = [at EXCEPT !["main"] = 1]
  /\ pc' = "loop"
  /\ UNCHANGED << configVars, callVars, envVars, checkVars, lockVars, pidVars, holder, tuningVars, fileVars,
                  sessionVars, flagVars, stats, block_data, consecutive_failures,
                  poolVars, acVars, roundVars, result, submitVars >>

\* One statement of thread t.
ThreadStep(t) ==
  /\ at[t] # 0
  /\ LET o == OpAt(t)
     IN  \/ /\ o.op = "acquire"
            /\ holder = "free"
            /\ holder' = t
            /\ at' = [at EXCEPT ![t] = @ + 1]
         \/ /\ o.op = "body"
            /\ \/ /\ at' = [at EXCEPT ![t] = @ + 1]
                  /\ UNCHANGED holder
               \/ /\ at' = [at EXCEPT ![t] = o.handler]
                  /\ holder' = "free"
         \/ /\ o.op = "release"
            /\ holder' = "free"
            /\ at' = [at EXCEPT ![t] = @ + 1]
         \/ /\ o.op = "branch"
            /\ \E k \in o.to : at' = [at EXCEPT ![t] = k]
            /\ UNCHANGED holder
         \/ /\ o.op = "start"
            /\ at' = [at EXCEPT ![t] = @ + 1, !["perf_monitor"] = 1, !["stats_monitor"] = 1]
            /\ UNCHANGED holder
         \/ /\ o.op = "spawn"
            /\ at' = [u \in StatsLockThreads |->
                        IF u = t THEN at[t] + 1
                        ELSE IF u \in WorkerThreads THEN 1 ELSE at[u]]
            /\ UNCHANGED holder
         \/ /\ o.op = "join"
            /\ \A u \in WorkerThreads : at[u] = 0
            /\ at' = [at EXCEPT ![t] = @ + 1]
            /\ UNCHANGED holder
  /\ UNCHANGED << configVars, callVars, envVars, checkVars, lockVars, pidVars, tuningVars, fileVars,
                  sessionVars, flagVars, stats, pc, block_data, consecutive_failures,
                  poolVars, acVars, roundVars, result, submitVars >>

WaitInit == Init /\ pc = "start"

WaitNext ==
  \/ MainThreadStart
  \/ \E t \in StatsLockThreads : ThreadStep(t)

WaitSpec == WaitInit /\ [][WaitNext]_vars

(* ---------------- mine_block under a fair scheduler -------------------- *)

\* The steps of the main thread inside mine_block that wait for nothing
\* but the workers: the iteration over as_completed and the exit of the
\* with block.
MineBlockStep ==
  \/ AsCompletedBegin
  \/ AsCompletedNext
  \/ AsCompletedExhausted
  \/ ExecutorExit

ReturnInit == Init /\ retry_attempts = 1 /\ difficulty = 1

ReturnNext ==
  \/ SearchMain
  \/ SignalHandler
  \/ \E i \in Workers : WorkerStart(i)
  \/ \E i \in Workers : WorkerStep(i)

\* Every pool thread and the main thread keep being scheduled; the timeout
\* of as_completed and a signal may or may not happen.
ReturnSpec ==
  /\ ReturnInit
  /\ [][ReturnNext]_vars
  /\ \A i \in Workers : WF_vars(WorkerStart(i)) /\ WF_vars(WorkerStep(i))
  /\ WF_vars(MineBlockStep)

(* ---------------- the consecutive-failure counter over many rounds ---- *)

\* Submissions of a run that is followed to the pause after five failures.
MaxFailureRounds == 6

FailureInit == Init /\ retry_attempts = 1 /\ difficulty = 1

FailureNext ==
  \/ StartMining
  \/ MineBlockUpTo(MaxFailureRounds)
  \/ MainAfterMine
  \/ SubmitAttempt
  \/ SubmitExhausted
  \/ MainApplyOutcome

FailureSpec == FailureInit /\ [][FailureNext]_vars

(* ---------------- the PID file: two miner processes -------------------- *)

\* The steps of this section are taken before and after the miner proper
\* runs: they leave its threads, its statistics and its round alone.
MinerUntouched ==
  UNCHANGED << configVars, callVars, envVars, checkVars, lockVars, waitVars, tuningVars,
               fileVars, sessionVars, flagVars, stats, pc, block_data,
               consecutive_failures, poolVars, acVars, roundVars, result,
               submitVars >>

\* psutil.pid_exists(pid): the process is one of the miners and has not
\* ended; the process of an earlier run is gone.
pid_exists(pid) == pid \in Procs /\ ipos[pid] \notin {"refused", "exited"}

\* A run that ended before the two processes started has left its PID file
\* behind, or a file that does not hold a number.
EarlierRun ==
  /\ \A p \in Procs : ipos[p] = "init"
  /\ pid_file = Absent
  /\ pid_file' \in {StalePid, Garbage}
  /\ UNCHANGED << ipos, read_pid, is_locked >>
  /\ MinerUntouched

\* if os.path.exists(self.PID_FILE)
AcquireExists(p) ==
  /\ ipos[p] = "init"
  /\ ipos' = [ipos EXCEPT ![p] = IF pid_file # Absent THEN "read" ELSE "write"]
  /\ UNCHANGED << pid_file, read_pid, is_locked >>
  /\ MinerUntouched

\* pid = int(f.read().strip()): FileNotFoundError when the file has gone
\* since the test, ValueError when it holds no number.
AcquireRead(p) ==
  /\ ipos[p] = "read"
  /\ IF pid_file \in {Absent, Garbage}
       THEN /\ ipos' = [ipos EXCEPT ![p] = "cleanup"]
            /\ UNCHANGED read_pid
       ELSE /\ read_pid' = [read_pid EXCEPT ![p] = pid_file]
            /\ ipos' = [ipos EXCEPT ![p] = "check"]
  /\ UNCHANGED << pid_file, is_locked >>
  /\ MinerUntouched

\* if psutil.pid_exists(pid): raise RuntimeError, which no handler of the
\* method catches.
AcquireCheck(p) ==
  /\ ipos[p] = "check"
  /\ ipos' = [ipos EXCEPT ![p] = IF pid_exists(read_pid[p]) THEN "refused" ELSE "remove_stale"]
  /\ UNCHANGED << pid_file, read_pid, is_locked >>
  /\ MinerUntouched

\* os.remove(self.PID_FILE) of the stale file: FileNotFoundError when it
\* has gone.
AcquireRemoveStale(p) ==
  /\ ipos[p] = "remove_stale"
  /\ IF pid_file = Absent
       THEN /\ ipos' = [ipos EXCEPT ![p] = "cleanup"]
            /\ UNCHANGED pid_file
       ELSE /\ pid_file' = Absent
            /\ ipos' = [ipos EXCEPT ![p] = "write"]
  /\ UNCHANGED << read_pid, is_locked >>
  /\ MinerUntouched

\* The handler of (ValueError, FileNotFoundError, OSError): its test
\* os.path.exists.
AcquireCleanup(p) ==
  /\ ipos[p] = "cleanup"
  /\ ipos' = [ipos EXCEPT ![p] = IF pid_file # Absent THEN "cleanup_remove" ELSE "write"]
  /\ UNCHANGED << pid_file, read_pid, is_locked >>
  /\ MinerUntouched

\* The handler's os.remove: an OSError becomes a RuntimeError.
AcquireCleanupRemove(p) ==
  /\ ipos[p] = "cleanup_remove"
  /\ IF pid_file = Absent
       THEN /\ ipos' = [ipos EXCEPT ![p] = "refused"]
            /\ UNCHANGED pid_file
       ELSE /\ pid_file' = Absent
            /\ ipos' = [ipos EXCEPT ![p] = "write"]
  /\ UNCHANGED << read_pid, is_locked >>
  /\ MinerUntouched

\* with open(self.PID_FILE, 'w') as f: f.write(str(os.getpid())), then
\* self._is_locked = True.
AcquireWrite(p) ==
  /\ ipos[p] = "write"
  /\ pid_file' = p
  /\ is_locked' = [is_locked EXCEPT ![p] = TRUE]
  /\ ipos' = [ipos EXCEPT ![p] = "locked"]
  /\ UNCHANGED read_pid
  /\ MinerUntouched

\* mine_block: 'if not self._is_locked: return None' lets the process mine.
MineLocked(p) ==
  /\ ipos[p] = "locked"
  /\ is_locked[p]
  /\ ipos' = [ipos EXCEPT ![p] = "mining"]
  /\ UNCHANGED << pid_file, read_pid, is_locked >>
  /\ MinerUntouched

\* The main loop ends (signal, Ctrl+C, error or normal end): the finally
\* clause of start_mining, then main returns and the process is gone.
ProcessEnds(p) ==
  /\ ipos[p] = "mining"
  /\ ipos' = [ipos EXCEPT ![p] = "exited"]
  /\ UNCHANGED << pid_file, read_pid, is_locked >>
  /\ MinerUntouched

PidNext ==
  \/ EarlierRun
  \/ \E p \in Procs : AcquireExists(p)
  \/ \E p \in Procs : AcquireRead(p)
  \/ \E p \in Procs : AcquireCheck(p)
  \/ \E p \in Procs : AcquireRemoveStale(p)
  \/ \E p \in Procs : AcquireCleanup(p)
  \/ \E p \in Procs : AcquireCleanupRemove(p)
  \/ \E p \in Procs : AcquireWrite(p)
  \/ \E p \in Procs : MineLocked(p)
  \/ \E p \in Procs : ProcessEnds(p)

PidInit == Init /\ retry_attempts = 1 /\ difficulty = 1


PidSpec == PidInit /\ [][PidNext]_vars

TypeOK ==
  /\ pc \in {"login", "prompt", "start", "loop", "as_completed_begin", "as_completed", "executor_exit",
             "mined", "submit", "submitted", "ended"}
  /\ \A i \in Workers : fut[i] \in {"none", "pending", "running", "finished", "cancelled"}
  /\ attempt \in 0 .. retry_attempts

(* ---------------- properties ------------------------------------------- *)

IsPost(e) == e.ev = "post"
IsSleep(e) == e.ev = "sleep"

\* The requests of the current call of submit_block, in order.
Posts == SelectSeq(trace, IsPost)
NumPosts == Len(Posts)

RECURSIVE SumSecs(_)
SumSecs(tr) == IF tr = << >> THEN 0 ELSE Head(tr).secs + SumSecs(Tail(tr))

\* The texts of ErrorTexts that hold one of the five keywords, whatever the case.
KeywordTexts ==
  { TextDuplicateBlock, TextAlreadySubmitted, TextBlockExists, TextInvalidHash,
    TextJobExpired }

\* A reply that is a non-retryable rejection: HTTP 409, or HTTP 200 with
\* success=false and a keyword text.
NonRetryableReply(reply) ==
  \/ reply.status = 409
  \/ reply.status = 200 /\ reply.body = "rejected" /\ reply.error \in KeywordTexts

Accepted(reply) == reply.status = 200 /\ reply.body = "success"

\* A reply that is a retryable failure.
RetryableFailure(reply) ==
  /\ reply.status # 429
  /\ ~Accepted(reply)
  /\ ~NonRetryableReply(reply)

\* C1: mine_block returns at most one Solution per round. A Solution it
\* returns is the result of the future it observed last, every future it
\* observed before had no Solution (the first observed Solution wins), the
\* loop never goes on past a Solution, and nothing but the returned Solution
\* is ever sent to the server: the Solutions of the other workers are
\* discarded.
C1_FirstObservedSolutionWins ==
  /\ (pc = "executor_exit" /\ ret # None) =>
       /\ yieldSeq # << >>
       /\ ret = res[yieldSeq[Len(yieldSeq)]]
       /\ ret.kind = "Solution"
       /\ \A k \in 1 .. (Len(yieldSeq) - 1) : res[yieldSeq[k]] = None
  /\ pc = "as_completed" => \A k \in 1 .. Len(yieldSeq) : res[yieldSeq[k]] = None
  /\ posted \subseteq {result}
  /\ posted \cap discarded = {}
  /\ Cardinality(posted) <= 1

\* C1 witness: two workers found a Solution in the round; one was returned
\* and sent to the server, the other was discarded.
C1_Witness ==
  /\ pc = "submitted"
  /\ discarded # {}
  /\ posted = {result}
  /\ result \notin discarded

\* C2 (as claimed): once the first Solution of the round has been observed,
\* no worker hashes a nonce beyond the batch it was in at that moment.
C2_WorkersStopAtBatchBoundary ==
  (pc = "executor_exit" /\ ret # None) =>
     \A j \in Workers : start_nonce[j] + hashes_computed[j] <= cancelMark[j]

\* C3 (as claimed): mine_block holding the first Solution can return at
\* once, whether or not the other workers of the round have terminated.
C3_ReturnsWithoutWaiting ==
  (pc = "executor_exit" /\ ret # None) => ENABLED ExecutorExit

\* C4 (as claimed): after the round timeout mine_block returns None, its
\* return does not wait for the workers, and the hashes counted so far stay
\* counted.
C4_TimeoutAbandonsWork ==
  (pc = "executor_exit" /\ timed_out) =>
     /\ ret = None
     /\ ENABLED ExecutorExit
     /\ stats.total_hashes >= statsAtRound.total_hashes

\* C5 (as claimed): submit_block returns only after an acceptance, a
\* non-retryable rejection, or the last configured attempt.
C5_RetryableFailureIsRetried ==
  pc = "submitted" =>
     \/ outcome.success
     \/ NumPosts > 0 /\ NonRetryableReply(Posts[NumPosts].reply)
     \/ NumPosts = retry_attempts

\* C6 (as claimed): with HTTP 500 on every attempt the submission ends with
\* 'Max retries exceeded' and network_errors has grown by retry_attempts.
C6_AllServerErrors ==
  (/\ pc = "loop"
   /\ outcome # None
   /\ retry_attempts > 0
   /\ \A k \in 1 .. NumPosts : Posts[k].reply.status = 500) =>
     /\ outcome.error = "Max retries exceeded"
     /\ stats.network_errors = statsAtSubmit.network_errors + retry_attempts

\* C7 (as claimed): a 429 does not consume an attempt slot (the loop index
\* counts the other replies only), and one 429 followed by a success has
\* slept the 5-second pause and nothing else.
C7_RateLimitKeepsTheSlot ==
  /\ pc = "submit" =>
       attempt = Len(SelectSeq(Posts, LAMBDA e : e.reply.status # 429))
  /\ (pc = "submitted" /\ NumPosts = 2 /\ Posts[1].reply.status = 429
        /\ Accepted(Posts[2].reply)) =>
       SumSecs(trace) = RateLimitSleep

\* C7 (amended): a 429 is followed by a 5-second sleep and the retry runs
\* at the next attempt index; every request, a 429 included, consumes a
\* slot, so a call makes at most retry_attempts requests, and one 429
\* followed by a success has slept the 5-second pause and then the backoff
\* retry_delay * 1.
C7_RateLimitConsumesTheSlot ==
  /\ \A idx \in 1 .. Len(trace) :
       (IsPost(trace[idx]) /\ trace[idx].reply.status = 429) =>
          /\ idx < Len(trace)
          /\ trace[idx + 1] = Sleep(RateLimitSleep)
  /\ \A k \in 1 .. NumPosts : Posts[k].attempt = k - 1
  /\ pc = "submit" =>
       /\ attempt = NumPosts
       /\ \A k \in 1 .. NumPosts : Posts[k].reply.status = 429
  /\ NumPosts <= retry_attempts
  /\ (pc = "submitted" /\ NumPosts = 2 /\ Posts[1].reply.status = 429
        /\ Accepted(Posts[2].reply)) =>
       /\ outcome.success
       /\ SumSecs(trace) = RateLimitSleep + RetryDelay

\* C7 witness: one 429, then a success.
C7_Witness ==
  /\ pc = "submitted"
  /\ NumPosts = 2
  /\ Posts[1].reply.status = 429
  /\ Accepted(Posts[2].reply)
  /\ outcome.success

\* C8: a non-retryable rejection (HTTP 409, or HTTP 200 with success=false
\* and a text holding 'duplicate', 'already submitted', 'exists', 'invalid
\* hash' or 'expired' in any case) is the last request of the call, which
\* returns retryable=false; when it answers the first request, the call has
\* made exactly one request.
C8_NonRetryableRejectionStops ==
  \A idx \in 1 .. Len(trace) :
     (IsPost(trace[idx]) /\ NonRetryableReply(trace[idx].reply)) =>
        /\ idx = Len(trace)
        /\ pc # "submit"
        /\ outcome # None
        /\ ~outcome.success
        /\ outcome.retryable = FALSE
        /\ (idx = 1 => NumPosts = 1)

\* C8 witness: the server answers the first request 'ALREADY SUBMITTED'.
C8_Witness ==
  /\ pc = "submitted"
  /\ trace = << Post(0, [status |-> 200, body |-> "rejected",
                         error |-> TextAlreadySubmitted]) >>
  /\ outcome.retryable = FALSE

\* C9 (as claimed): submit_block returns 'Max retries exceeded' exactly
\* when it has made retry_attempts requests and none was accepted or
\* rejected for good.
C9_MaxRetriesIffExhausted ==
  pc = "submitted" =>
     ( outcome = MaxRetriesExceeded
       <=> /\ NumPosts = retry_attempts
           /\ \A k \in 1 .. NumPosts :
                ~Accepted(Posts[k].reply) /\ ~NonRetryableReply(Posts[k].reply) )

Applied == pc = "loop" /\ outcome # None

\* A clean application-level rejection: HTTP 200 with success=false.
AppLevelRejection(reply) == reply.status = 200 /\ reply.body = "rejected"

\* A failure classified as transport or protocol: a timeout, a connection
\* failure, a malformed body, or an unexpected status.
TransportClassified(reply) ==
  \/ reply.status = 0
  \/ reply.status = 200 /\ reply.body = "malformed"
  \/ reply.status \notin {0, 200, 409, 429}

\* C11 (as claimed): a failed submission adds one to rejected_blocks, and
\* network_errors grows only when the reply that ended the call was
\* transport/protocol-classified; an application-level rejection, retryable
\* or not, leaves network_errors as it was.
C11_NetworkErrorsOnlyForTransport ==
  (Applied /\ ~outcome.success) =>
     /\ stats.rejected_blocks = statsAtSubmit.rejected_blocks + 1
     /\ stats.network_errors # statsAtSubmit.network_errors =>
          /\ NumPosts > 0
          /\ TransportClassified(Posts[NumPosts].reply)
          /\ stats.network_errors = statsAtSubmit.network_errors + 1
     /\ (NumPosts > 0 /\ AppLevelRejection(Posts[NumPosts].reply)) =>
          stats.network_errors = statsAtSubmit.network_errors

OutcomeCounters == {"accepted_blocks", "rejected_blocks", "network_errors"}

\* C12 (as claimed): applying an outcome changes exactly one of
\* accepted_blocks, rejected_blocks and network_errors, by one.
C12_ExactlyOneCounter ==
  Applied =>
     \E f \in OutcomeCounters :
        /\ stats[f] = statsAtSubmit[f] + 1
        /\ \A g \in OutcomeCounters \ {f} : stats[g] = statsAtSubmit[g]

\* The six fields of an acceptance are as they were when submit_block was
\* called.
NoneApplied ==
  \A f \in {"accepted_blocks", "blocks_mined", "last_block_time", "total_earnings",
             "current_balance", "power_level"} : stats[f] = statsAtSubmit[f]

\* The six fields of an acceptance all carry the update for the reply data.
AllApplied(data) ==
  /\ stats.accepted_blocks = statsAtSubmit.accepted_blocks + 1
  /\ stats.blocks_mined = statsAtSubmit.blocks_mined + 1
  /\ stats.last_block_time \in ClockReadings(statsAtSubmit.last_block_time)
  /\ stats.total_earnings =
       statsAtSubmit.total_earnings + (IF "final_reward" \in DOMAIN data THEN data.final_reward ELSE 0)
  /\ stats.current_balance = (IF "new_balance" \in DOMAIN data THEN data.new_balance ELSE 0)
  /\ stats.power_level = (IF "power_level" \in DOMAIN data THEN data.power_level ELSE "low")

C14_AverageOnlyAfterSecondAcceptance ==
  [][ stats'.average_block_time # stats.average_block_time =>
        /\ pc = "submitted" /\ outcome.success
        /\ stats'.accepted_blocks = statsAtSubmit.accepted_blocks + 1
        /\ stats'.accepted_blocks > 1
        /\ \E now \in ClockReadings(stats.last_block_time) :
              stats'.average_block_time = now \div stats'.accepted_blocks ]_vars

\* C14 witness: the second acceptance of a session has been applied and the
\* average went from 0 to 120 / 2.
C14_Witness ==
  /\ Applied /\ outcome.success
  /\ stats.accepted_blocks = 2
  /\ statsAtSubmit.average_block_time = 0
  /\ stats.average_block_time = 60

\* C15: once the server has reported a balance (at login, in the identity
\* check of a cached session, or as new_balance of an accepted submission),
\* stats.current_balance is the balance it reported last.
C15_BalanceIsLastReported ==
  (reported # None /\ lock # "main") => stats.current_balance = reported.balance

\* C16: no step of a session (login, round, submission attempt, retry,
\* statement of the outcome's application, monitor thread, signal) lowers
\* accepted_blocks or rejected_blocks.
C16_CountersNeverDecrease ==
  [][ /\ stats'.accepted_blocks >= stats.accepted_blocks
      /\ stats'.rejected_blocks >= stats.rejected_blocks ]_vars

\* C16 witness: a session with one accepted and one rejected block, the
\* last one submitted twice (a retry after 429), while the performance
\* monitor has written its readings.
C16_Witness ==
  /\ Applied
  /\ stats.accepted_blocks = 1
  /\ stats.rejected_blocks = 1
  /\ NumPosts = 2
  /\ stats.cpu_usage > 0

\* The entries of q from position a on.
From(q, a) == SubSeq(q, a, Len(q))

\* A step in which mine_block returns a Solution in TuningSpec: the hashes
\* of the round are counted and result is the Solution.
SolutionRound == result' # None /\ stats'.total_hashes > stats.total_hashes

\* C17: the window never holds more than 10 entries; a round that yields a
\* Solution makes it the old window with the round's rate appended, less
\* its oldest entry when that makes 11, and no other step changes it.
C17_WindowIsLastTen ==
  [][ /\ Len(last_hash_rates) <= 10
      /\ Len(last_hash_rates') <= 10
      /\ IF SolutionRound
           THEN LET a == Append(last_hash_rates, stats'.hash_rate)
                IN  last_hash_rates' = IF Len(a) = 11 THEN From(a, 2) ELSE a
           ELSE last_hash_rates' = last_hash_rates ]_vars

\* C17 witness: two rounds after a window of 9 or 10 entries: an 11th
\* insertion has happened, the window holds 10 entries, the two newest
\* being the rates of the two rounds in arrival order.
C17_Witness ==
  /\ stats.total_hashes = 2
  /\ Len(last_hash_rates) = 10
  /\ last_hash_rates[1] = 50000
  /\ last_hash_rates[8] = 2000000
  /\ last_hash_rates[9] = 100000
  /\ last_hash_rates[10] = 1000000

\* C18: in a round that yields a Solution the difficulty rises by exactly 1
\* when auto-tuning is on, the window (with the round's rate) holds at least
\* 5 samples, their mean is above 1,000,000 and the difficulty is below 8;
\* it falls by exactly 1 when auto-tuning is on, the window holds at least 5
\* samples, their mean is below 100,000 and the difficulty is above 3; in
\* every other case, and in every other step, it is unchanged.
C18_AdjustTable ==
  [][ IF SolutionRound
        THEN LET q == last_hash_rates'
                 enough == auto_difficulty /\ Len(q) >= 5
             IN  difficulty' =
                   IF enough /\ Sum(q) > 1000000 * Len(q) /\ difficulty < 8
                     THEN difficulty + 1
                   ELSE IF enough /\ Sum(q) < 100000 * Len(q) /\ difficulty > 3
                     THEN difficulty - 1
                   ELSE difficulty
        ELSE difficulty' = difficulty ]_vars

\* C18 witness: one round after a window of four samples, auto-tuning on:
\* the window holds 5 samples with a mean above 1,000,000 and the difficulty
\* has been raised to 6.
C18_Witness ==
  /\ auto_difficulty
  /\ stats.total_hashes = 1
  /\ result # None
  /\ Len(last_hash_rates) = 5
  /\ Sum(last_hash_rates) > 1000000 * 5
  /\ difficulty = 6

\* C19 as stated: the difficulty is within [3, 8] in every state.
C19_DifficultyWithinBand == difficulty \in 3 .. 8

\* C19 amended: the controller bounds only its own moves: a difficulty
\* within [3, 8] stays within [3, 8], a difficulty below 3 is never lowered
\* and rises by at most 1 per step, a difficulty above 8 is never raised and
\* falls by at most 1 per step.
C19_DifficultyMovesTowardBand ==
  [][ /\ difficulty \in 3 .. 8 => difficulty' \in 3 .. 8
      /\ difficulty < 3 => difficulty' \in difficulty .. (difficulty + 1)
      /\ difficulty > 8 => difficulty' \in (difficulty - 1) .. difficulty ]_vars

\* C19 witness: a session configured with difficulty 10 has been lowered to
\* 9 by one round whose window has a mean below 100,000.
C19_Witness ==
  /\ auto_difficulty
  /\ stats.total_hashes = 1
  /\ result # None
  /\ Len(last_hash_rates) >= 5
  /\ Sum(last_hash_rates) < 100000 * Len(last_hash_rates)
  /\ difficulty = 9

\* C20: the step in which mine_block takes a Solution from a future
\* appends the round's rate to the window and then applies the controller
\* once to the window so extended; no other step of a round (a future
\* without a Solution, exhaustion, timeout, shutdown, the workers, the
\* submission) changes the window or the difficulty.
C20_ControllerOncePerSolution ==
  [][ IF ret = None /\ ret' # None
        THEN /\ last_hash_rates' = From(Append(last_hash_rates, stats'.hash_rate),
                                        IF Len(last_hash_rates) = 10 THEN 2 ELSE 1)
             /\ difficulty' = adjust_difficulty(difficulty, last_hash_rates')
        ELSE UNCHANGED << difficulty, last_hash_rates >> ]_vars

\* C20 witness: a round has returned a Solution measured at 2,000,000 H/s:
\* the rate is the fifth sample of the window and the controller, seeing
\* five samples, has raised the difficulty from 1 to 2.
C20_Witness ==
  /\ pc = "mined"
  /\ result # None
  /\ Len(last_hash_rates) = 5
  /\ last_hash_rates[5] = 2000000
  /\ stats.hash_rate = 2000000
  /\ difficulty = 2


\* The first d characters of h are all '0' and h has at least d of them.
ZeroPrefix(h, d) == Len(h) >= d /\ \A k \in 1 .. d : h[k] = "0"

WorkersAlive == \E i \in Workers : fut[i] \in {"pending", "running"}

\* The main thread is inside mine_block.
Searching == pc \in {"as_completed_begin", "as_completed", "executor_exit"}

C30_SubmittedDifficultyValidates ==
  [][ ~(posted' \subseteq posted) => is_valid_hash(result.hash, difficulty) ]_vars


\* C28: every validity check made by any worker during a round uses the
\* difficulty the round was started with.
C28_ChecksUseRoundDifficulty ==
  \A i \in Workers : \A k \in 1 .. Len(hashed[i]) :
     hashed[i][k].difficulty = roundConfig.difficulty


\* C27: the hash algorithm is resolved once per round: every hash of a
\* round is computed with the algorithm HASH_ALGORITHM named when the round
\* began, whatever the setting is changed to while the round is in
\* progress, and is the digest of (block data, nonce) under that algorithm.
C27_AlgorithmFixedPerRound ==
  \A i \in Workers : \A k \in 1 .. Len(hashed[i]) :
     /\ hashed[i][k].algorithm = roundConfig.algorithm
     /\ hashed[i][k].hash =
          HexDigest(Digest(roundConfig.algorithm, block_data, hashed[i][k].nonce))


\* The nonces of the window of worker i.
Window(i) == start_nonce[i] .. (start_nonce[i] + NonceRange - 1)

\* C22: mine_block_thread tests the nonces of its window in strictly
\* increasing order and returns at the first valid one: the k-th hash of a
\* worker is that of the k-th nonce of its window, no nonce outside the
\* window is hashed, and a returned Solution has a nonce of the window, the
\* hash calculate_hash gives for it, valid at the difficulty of the round,
\* with no smaller nonce of the window valid at it.
C22_FirstValidNonceOfWindow ==
  \A i \in Workers :
    /\ \A k \in 1 .. Len(hashed[i]) :
         /\ hashed[i][k].nonce = start_nonce[i] + k - 1
         /\ hashed[i][k].nonce \in Window(i)
    /\ res[i] # None =>
         /\ res[i].nonce \in Window(i)
         /\ res[i].hash = calculate_hash(block_data, res[i].nonce)
         /\ is_valid_hash(res[i].hash, roundConfig.difficulty)
         /\ \A m \in Window(i) :
              m < res[i].nonce =>
                ~is_valid_hash(calculate_hash(block_data, m), roundConfig.difficulty)


\* C24: an exception inside one mine_block_thread becomes a None result of
\* that worker only. The step that raises it finishes that worker's future
\* with None and leaves the futures and results of the other workers, the
\* position of mine_block, its return value and the flags as they were;
\* and a round that ends without a timeout returns None only if no worker
\* at all returned a Solution, so the round still returns a Solution if
\* another worker finds one.
C24_FaultIsolated ==
  [][ /\ faulted' # faulted /\ faulted' # {} =>
           \E i \in faulted' \ faulted :
              /\ fut'[i] = "finished"
              /\ res'[i] = None
              /\ \A j \in Workers \ {i} : fut'[j] = fut[j] /\ res'[j] = res[j]
              /\ pc' = pc
              /\ ret' = ret
              /\ timed_out' = timed_out
              /\ UNCHANGED flagVars
      /\ (pc' = "executor_exit" /\ ~timed_out' /\ ret' = None) =>
           \A j \in Workers : res'[j] = None ]_vars

\* C24 witness: mine_block has returned a Solution in a round in which
\* another worker raised an exception.
C24_Witness ==
  /\ pc = "mined"
  /\ faulted # {}
  /\ result # None
  /\ result.thread_id \notin faulted


\* The hashes of worker i that have been counted: those it computed, less
\* the one it is in the middle of counting.
Counted(i) == hashes_computed[i] - (IF wpos[i] = "top" THEN 0 ELSE 1)

\* C23: stats['total_hashes'] increases by exactly one for every hash of
\* every worker, under every interleaving: during a round it is its value
\* before the round plus the hashes the workers have counted, and when
\* every worker has returned it is that value plus the sum of
\* hashes_computed over all workers of the round, those whose Solution was
\* discarded and those that were exhausted included.
C23_NoLostUpdate ==
  /\ Searching =>
       stats.total_hashes =
         statsAtRound.total_hashes + Sum([k \in 1 .. Threads |-> Counted(k - 1)])
  /\ (pc = "executor_exit" /\ AllJoined) =>
       stats.total_hashes =
         statsAtRound.total_hashes
           + Sum([k \in 1 .. Threads |-> hashes_computed[k - 1]])

\* C23 witness: every worker of the round has returned after interleaved
\* increments; one Solution was returned by mine_block, the Solution of
\* another worker is left to be discarded.
C23_Witness ==
  /\ pc = "executor_exit"
  /\ AllJoined
  /\ ret # None
  /\ \E i \in Workers : res[i] # None /\ res[i] # ret
  /\ \A i \in Workers : hashes_computed[i] >= 2
  /\ stats.total_hashes >= 4

\* The step is a write of the stats by the thread that holds the lock: a
\* statement of the main thread's with block, or the write of a worker's
\* += 1.
HolderWrites ==
  \/ lock = "main" /\ step' = step + 1 /\ wpos' = wpos
  \/ \E i \in Workers :
       /\ lock = WorkerName(i)
       /\ wpos[i] = "locked"
       /\ wpos' = [wpos EXCEPT ![i] = "top"]
       /\ step' = step

\* The step is a with block taken as a whole (the login, the Solution
\* branch of mine_block, an iteration of the performance monitor): it finds
\* the lock free and leaves it free, and it is no statement of a thread
\* that takes the lock in a step of its own.
WholeBlockWrites == lock = "free" /\ lock' = "free" /\ step' = step /\ wpos' = wpos

\* C26: every mutation of the stats is performed while the mutating thread
\* holds stats_lock: no step changes a stats field unless its thread holds
\* the lock, and the lock is held by one thread at a time, so no thread
\* writes while another holds it.
C26_WritesHoldLock ==
  [][ stats' # stats => (HolderWrites \/ WholeBlockWrites) ]_vars

\* C26 witness: a worker holds the lock for its increment while the other
\* worker waits for it, after the login and the performance monitor have
\* written the stats.
C26_Witness ==
  /\ \E i \in Workers, j \in Workers :
       lock = WorkerName(i) /\ wpos[i] = "locked" /\ wpos[j] = "lock"
  /\ stats.user_id = UserId
  /\ stats.cpu_usage # 0


\* The step of the main thread that computes the success rate of the log
\* line of an accepted block from stats['accepted_blocks'] and
\* stats['rejected_blocks'].
MainLogsSuccessRate == pc = "submitted" /\ pc' = "loop" /\ outcome.success

\* The step of the monitor thread that is print_stats: success rate,
\* blocks per hour and earnings per hour, in one with block.
MonitorPrintsStats == sm = "idle" /\ sm' = "printed"

\* C29: the derived metrics are computed from one snapshot of the stats
\* taken under the lock: the thread that computes them holds stats_lock
\* while it reads the record, the main thread inside its with block and
\* the monitor in a with block of its own that no other thread is in.
C29_MetricsUnderLock ==
  [][ /\ MainLogsSuccessRate => lock = "main"
      /\ MonitorPrintsStats => lock = "free" ]_vars


\* C31: when mine_block returns, with a Solution, after a timeout or with
\* None, every worker of the round has terminated: outside mine_block no
\* worker is pending or running, and no step taken outside it computes a
\* hash or changes total_hashes, during the submission or later.
C31_NoWorkerOutlivesRound ==
  [][ /\ ~Searching' => ~WorkersAlive'
      /\ (~Searching /\ ~Searching') =>
           /\ stats'.total_hashes = stats.total_hashes
           /\ hashes_computed' = hashes_computed
           /\ hashed' = hashed ]_vars

\* C31 witness: mine_block has returned a Solution after another worker
\* went through its whole window, and the submission is under way.
C31_Witness ==
  /\ pc = "submit"
  /\ result # None
  /\ stats.total_hashes >= result.hashes_computed + NonceRange
  /\ attempt = 0


\* C32: cancellation is polled only between batches: a worker that
\* returned None, stopped by a flag or at the end of its window, has
\* computed a whole number of batches of hash_batch_size nonces.
C32_StopsBetweenBatches ==
  \A i \in Workers :
    (fut[i] = "finished" /\ res[i] = None) =>
       \/ hashes_computed[i] % HashBatchSize = 0
       \/ hashes_computed[i] = NonceRange


(* ---------------- the monolithic miner's submit_block (miner.py) -------- *)

\* Counters of one call of PhonesiumMiner.submit_block: the requests it
\* issued, what it added to the three counters, and whether it has returned.
LegacyStart ==
  [requests |-> 0, accepted |-> 0, rejected |-> 0, network_errors |-> 0,
   returned |-> FALSE]

\* One iteration of the for loop of PhonesiumMiner.submit_block on reply:
\* the counter it changes under stats_lock and whether it returns.
LegacyAttempt(c, reply) ==
  LET posted1 == [c EXCEPT !.requests = @ + 1]
  IN  IF reply.status = 0
        THEN [posted1 EXCEPT !.network_errors = @ + 1]
      ELSE IF reply.status = 200
        THEN IF reply.body = "malformed"
               THEN [posted1 EXCEPT !.network_errors = @ + 1]
             ELSE IF reply.body = "success"
               THEN [posted1 EXCEPT !.accepted = @ + 1, !.returned = TRUE]
             ELSE [posted1 EXCEPT !.rejected = @ + 1,
                                  !.returned = IsNonRetryableText(reply.error)]
      ELSE IF reply.status = 409
        THEN [posted1 EXCEPT !.rejected = @ + 1, !.returned = TRUE]
      ELSE IF reply.status = 429
        THEN posted1
        ELSE [posted1 EXCEPT !.network_errors = @ + 1]

\* PhonesiumMiner.submit_block on the replies the server sends, in order:
\* 'for attempt in range(self.retry_attempts)' until a return; it returns
\* False when the range is exhausted.
RECURSIVE LegacySubmit(_, _, _)
LegacySubmit(c, replies, attempts) ==
  IF c.returned THEN c
  ELSE IF attempts = 0 THEN [c EXCEPT !.returned = TRUE]
  ELSE IF replies = << >> THEN c
  ELSE LegacySubmit(LegacyAttempt(c, Head(replies)), Tail(replies), attempts - 1)

\* The replies the refactored pipeline has received for the Solution.
RepliesSeen == [k \in 1 .. NumPosts |-> Posts[k].reply]

\* C33 (as claimed): once the main loop has applied the outcome of a
\* submission, the monolithic submit_block run on the same replies has
\* returned as well, after the same number of requests, and has changed
\* accepted_blocks, rejected_blocks and network_errors by the same amounts.
C33_LegacyEquivalent ==
  (pc = "loop" /\ outcome # None) =>
     LET legacy == LegacySubmit(LegacyStart, RepliesSeen, retry_attempts)
     IN  /\ legacy.returned
         /\ legacy.requests = NumPosts
         /\ stats.accepted_blocks - statsAtSubmit.accepted_blocks = legacy.accepted
         /\ stats.rejected_blocks - statsAtSubmit.rejected_blocks = legacy.rejected
         /\ stats.network_errors - statsAtSubmit.network_errors = legacy.network_errors

\* C34: stats_lock is never requested by the thread that holds it, it is
\* held only by a thread inside a with block (a thread that has ended or
\* left the block has released it), and whoever holds it can take its next
\* step: no thread waits for a lock that will never be released.
C34_NoThreadWaitsForever ==
  \A t \in StatsLockThreads :
     /\ OpAt(t).op = "acquire" => holder # t
     /\ holder = t <=> OpAt(t).op \in {"body", "release"}
     /\ holder = t => ENABLED ThreadStep(t)

\* C34 (witness): the main thread and a worker request stats_lock while the
\* thread of stats_monitor_thread holds it for the periodic save.
C34_Witness ==
  /\ holder = "stats_monitor" /\ OpAt("stats_monitor").line = 98
  /\ OpAt("main").op = "acquire" /\ OpAt("main").line = 205
  /\ OpAt(WorkerName(0)).op = "acquire"

C36_NothingAfterShutdown ==
  [][ shutdown_requested =>
        /\ posted' \subseteq posted
        /\ (pc = "loop" => pc' \in {"loop", "ended"})
        /\ stats'.accepted_blocks = stats.accepted_blocks
        /\ stats'.rejected_blocks = stats.rejected_blocks ]_vars

\* C36 (amended): once _signal_handler has run, no round is started by a
\* loop test made after it and a Solution whose mine_block call returns
\* after it is dropped without a request; only a submission that had begun
\* before the signal goes on: its requests are posted and its outcome is
\* counted.
C36_NoNewWorkAfterShutdown ==
  [][ shutdown_requested =>
        /\ (pc = "loop" => pc' \in {"loop", "ended"})
        /\ (pc = "mined" => pc' = "loop" /\ posted' = posted /\ stats' = stats)
        /\ (\/ ~(posted' \subseteq posted)
            \/ stats'.accepted_blocks # stats.accepted_blocks
            \/ stats'.rejected_blocks # stats.rejected_blocks)
             => pc \in {"submit", "submitted"} ]_vars

\* C36 (witness): the round in progress at the signal found a Solution, and
\* the main loop has dropped it: nothing was posted and nothing counted.
C36_Witness ==
  /\ shutdown_requested /\ pc = "loop"
  /\ result # None /\ posted = {} /\ outcome = None
  /\ stats.accepted_blocks + stats.rejected_blocks = 0

\* C37: an accepted submission leaves consecutive_failures at 0; a failed
\* one adds 1, and the fifth in a row ends in the pause that resets it to 0;
\* an iteration without a submission leaves it as it is; it is never above
\* 5, and never above 4 when a round starts.
C37_FailureCounter ==
  [][ /\ (pc = "submitted" /\ pc' = "loop" /\ outcome.success) =>
           consecutive_failures' = 0
      /\ (pc = "submitted" /\ pc' = "loop" /\ ~outcome.success) =>
           consecutive_failures' =
             IF consecutive_failures + 1 = MaxConsecutiveFailures
               THEN 0 ELSE consecutive_failures + 1
      /\ (pc = "mined" /\ pc' = "loop") =>
           consecutive_failures' = consecutive_failures
      /\ ~(pc = "submitted" /\ pc' = "loop") /\ ~(pc = "mined" /\ pc' = "loop") =>
           consecutive_failures' = consecutive_failures
      /\ consecutive_failures' <= MaxConsecutiveFailures
      /\ pc' = "loop" => consecutive_failures' <= MaxConsecutiveFailures - 1 ]_vars

\* C37 (witness): the fifth failed submission in a row has been applied
\* and the counter is back at 0.
C37_Witness ==
  /\ pc = "loop" /\ outcome # None /\ consecutive_failures = 0
  /\ stats.rejected_blocks = MaxConsecutiveFailures /\ stats.accepted_blocks = 0

\* C38 (as claimed): a miner process whose main loop has ended holds the
\* guard no longer, and the PID file it wrote is gone.
C38_GuardReleasedAtExit ==
  \A p \in Procs :
     ipos[p] = "exited" => ~is_locked[p] /\ pid_file # p

\* C39 (as claimed): of two live processes at most one has _is_locked =
\* True, and two processes never mine at the same time.
C39_SingleInstance ==
  /\ Cardinality({p \in Procs : pid_exists(p) /\ is_locked[p]}) <= 1
  /\ Cardinality({p \in Procs : ipos[p] = "mining"}) <= 1

====
